---- MODULE Spec2Model ----
(***************************************************************************)
(* IELTS speaking-evaluation pipeline: the shared credential pool (quota   *)
(* ledger, checkout/release locking), the two evaluation request drivers   *)
(* (key/model rotation) and the background job state machine.              *)
(*                                                                         *)
(* The module holds several specifications over one set of variables; each *)
(* one runs a part of the system and leaves the other parts at rest:       *)
(*   Spec           credential locking (checkout_api_key, release_api_key) *)
(*   SpecQuota      quota ledger (mark, sweep, reset, candidate fetch)     *)
(*   SpecDriver     one run of either evaluation driver                    *)
(*   SpecConcurrent two evaluation runs over one pool credential           *)
(*   SpecJobs       job table: submissions, retries, runners, watchdogs,   *)
(*                  cancel requests                                        *)
(*   SpecJobsFair   SpecJobs with the watchdog's steps weakly fair         *)
(*   SpecLedgerLock quota marks and resets together with checkout/release  *)
(*   SpecCancel     cancel requests over a job table that holds rows       *)
(*   SpecBand       the overall band of an assembled result                *)
(*   SpecSave       the insert of the result row and the answer of a run   *)
(*                  that has its evaluation                                *)
(*   SpecWatchdog   the watchdog with its clock, over retries of one job   *)
(*   SpecParse      parseJson over raw, fenced and prose-prefixed text     *)
(*   SpecPolling    the useJobPolling hook watching one job row            *)
(*   SpecSpeech     the speech-analysis hook and its recognition instances *)
(*   SpecMedia      audio segments of one submission: ordering, download,  *)
(*                  request parts                                          *)
(***************************************************************************)
EXTENDS Integers, Sequences, FiniteSets, TLC

(***************************************************************************)
(* Bounds of the model and program constants.                              *)
(***************************************************************************)
\* Last minute of the modelled clock.
MaxNow == 3
\* Minutes per calendar day at the scale of the model.
DayLen == 2
\* p_lock_minutes int DEFAULT 2
DefaultLockMinutes == 2

Keys == {"k1", "k2"}
\* Job identifiers that call the locking functions.
JobIds == {"j1", "j2"}
NoJob == "null"
NoKey == "none"
\* A job that has not called checkout_api_key yet.
NoCall == "not_called"
\* SQL NULL in a timestamp or date column.
NoTime == -1

\* The quota categories of QuotaModelType that the model tracks (legacy buckets).
Cats == {"flash_2_5", "tts"}
\* The per-model quota columns that the model tracks.
ModelCols == {"gemini_2_5_flash", "gemini_2_0_flash"}
Cols == Cats \cup ModelCols

\* const GEMINI_MODELS = ['gemini-2.5-flash', 'gemini-2.0-flash']
GEMINI_MODELS == <<"gemini-2.5-flash", "gemini-2.0-flash">>

VARIABLES
  now,               \* the clock, in minutes
  is_active,         \* api_keys.is_active
  error_count,       \* api_keys.error_count
  locked_by_job_id,  \* api_keys.locked_by_job_id
  locked_until,      \* api_keys.locked_until
  updated_at,        \* api_keys.updated_at
  quota,             \* api_keys.<col>_exhausted / <col>_exhausted_date
  txn,               \* the open checkout_api_key transaction of each job
  returned,          \* what each job's last checkout_api_key call returned
  held,              \* the credentials handed to each job and not yet released
  fetched,           \* the rows the last getActiveGeminiKeysForModel returned
  lastOp,            \* the operation that produced the current state
  userSecret,        \* whether the caller of a run supplies a credential of their own
  drv,               \* each evaluation run's driver: loop position and locals
  obs,               \* per run: the last model call, and what the run wrote to the ledger
  jobs,              \* speaking_evaluation_jobs
  result_rows,       \* ai_practice_results: the requests whose runner inserted a row
  req,               \* the requests to evaluate-speaking-async: handler, runner, watchdog
  file_paths,        \* the keys of the submitted file_paths map, in key order
  orderedSegments,   \* the segment metadata, sorted
  audioFiles,        \* the downloaded audio, in download order
  contentParts,      \* the parts of the model request
  media,             \* position of the segment handling: pc, driver kind, loop index
  evaluationResult,  \* the parsed model output a run assembles its result from
  assembled,         \* the assembling of the result: pc, driver kind, overallBand, response
  parse,             \* one parseJson call: the text given and what was returned
  polling,           \* one useJobPolling hook watching a job row, and its callbacks
  speech             \* one speech-analysis hook and its SpeechRecognition instances

poolVars == <<now, is_active, error_count, locked_by_job_id, locked_until,
              updated_at, quota>>
lockVars == <<txn, returned, held>>
driverVars == <<userSecret, drv, obs>>
\* What the pool functions leave alone.
mediaVars == <<file_paths, orderedSegments, audioFiles, contentParts, media>>
assembleVars == <<evaluationResult, assembled>>
clientVars == <<parse, polling, speech>>
outsidePool == <<userSecret, drv, obs, jobs, result_rows, req, mediaVars, assembleVars, clientVars>>
vars == <<now, is_active, error_count, locked_by_job_id, locked_until,
          updated_at, quota, txn, returned, held, fetched, lastOp,
          userSecret, drv, obs, jobs, result_rows, req,
          file_paths, orderedSegments, audioFiles, contentParts, media,
          evaluationResult, assembled, parse, polling, speech>>

Today(t) == t \div DayLen

Range(sq) == {sq[i] : i \in DOMAIN sq}

\* Requests to evaluate-speaking-async that the model follows.
MaxReqs == 2
Reqs == 1..MaxReqs
Users == {"u1", "u2"}
\* retryJobId absent; job not assigned yet.
NoJobId == 0
\* resultRow?.id of a failed insert; result_id NULL.
NoResult == 0

\* The messages of the errors runEvaluation throws.
NoException == "none"
Exceptions == {"Job not found", "Test not found",
               "No audio files could be downloaded from R2",
               "No API keys available",
               "Evaluation failed: all models/keys exhausted"}

\* A request that has not been received.
NewReq(user, retryJobId) ==
  [user |-> user, testId |-> "t1", retryJobId |-> retryJobId, h |-> "start",
   job |-> NoJobId, run |-> "off", resultRow |-> NoResult, wd |-> "off",
   thrown |-> NoException, at |-> NoTime]

\* A band that is absent or no number; band values are in tenths (65 is 6.5).
NoBand == -1000
\* evaluationResult = null
NoEvaluation == [overall_band |-> NoBand, modelAnswers |-> <<>>,
                 criteria |-> [present |-> FALSE,
                               bands |-> <<NoBand, NoBand, NoBand, NoBand>>]]
NoResponse == [status |-> 0, overallBand |-> NoBand, resultId |-> NoResult]
NotAssembling == [pc |-> "off", kind |-> "none", overallBand |-> NoBand,
                  resultRow |-> NoResult, response |-> NoResponse]

\* parseJson returned null.
NoJson == [ok |-> FALSE, val |-> <<>>]
\* No text is being parsed.
NoParse == [pc |-> "off", form |-> "none", doc |-> <<>>, text |-> <<>>, result |-> NoJson]

\* The calls of onComplete / onFailed and the row changes the model follows.
MaxCalls == 2
MaxChanges == 3
\* useJobPolling is not mounted: useState(null), useRef(false), no timer, nothing
\* in flight.
NoPolling ==
  [pc |-> "off", db |-> "pending", status |-> "null", hasCompleted |-> FALSE,
   effect |-> FALSE, timer |-> FALSE, fetches |-> <<>>, notes |-> <<>>, changes |-> 0,
   onComplete |-> 0, onFailed |-> 0, completedSeen |-> 0]

\* The recording sessions (one SpeechRecognition instance each) the model follows.
MaxSessions == 2
Instances == 1..MaxSessions
NoInstance == 0
\* The speech-analysis hook before start(): the refs at their useRef values.
NoSpeech ==
  [pc |-> "off", isAnalyzing |-> FALSE, isManualStop |-> FALSE, isRestarting |-> FALSE,
   recognitionRef |-> NoInstance, inst |-> [i \in Instances |-> "none"], created |-> 0,
   watchdog |-> FALSE, timers |-> <<>>, stops |-> 0, stopped |-> {},
   startedAfterStop |-> {}, lateFire |-> FALSE]

\* Entries of a submitted file_paths map.
MaxFiles == 3
\* The text part of a model request.
PromptKey == [part |-> 0, qid |-> "prompt"]

\* The evaluation runs (one invocation of a driver each).
Procs == {"p1", "p2"}
\* extractRetryAfterSeconds returned undefined.
NoRetry == NoTime
\* const MAX_RETRIES = 4 (background driver)
MAX_RETRIES == 4
\* for (let attempt = 0; attempt < 2; attempt++) (synchronous driver)
SYNC_ATTEMPTS == 2

NoModelCall == [ki |-> 0, mi |-> 0, res |-> "none", perm |-> FALSE, cls |-> "none"]
NoObs == [lastCall |-> NoModelCall, permFirst |-> 0, marked |-> {},
          sawPermanent |-> FALSE]
OffDrv == [pc |-> "off", kind |-> "none", keyQueue |-> <<>>, ki |-> 0, mi |-> 0,
           attempt |-> 0, sawTemporaryRateLimit |-> FALSE,
           bestRetryAfterSeconds |-> NoRetry, usedModel |-> "none",
           usedKey |-> [keyId |-> "none", isUserProvided |-> FALSE],
           outcome |-> "none"]

NoQuota == [exhausted |-> FALSE, date |-> NoTime]
IdleTxn == [pc |-> "idle", key |-> NoKey, at |-> NoTime, until |-> NoTime]
Op(name, who, arg) == [op |-> name, who |-> who, arg |-> arg]

(***************************************************************************)
(* checkout_api_key / release_api_key                                      *)
(***************************************************************************)
\* CASE p_model_name ... END of the WHERE clause.
ModelQuotaOk(k, m) ==
  CASE m = "gemini-2.5-flash" -> quota[k]["gemini_2_5_flash"].exhausted = FALSE
    [] m = "gemini-2.0-flash" -> quota[k]["gemini_2_0_flash"].exhausted = FALSE
    [] OTHER -> TRUE

\* Mutant: the lock columns are not consulted.
CheckoutEligible_NoLockTest(k, m, t) ==
  /\ is_active[k] = TRUE
  /\ ModelQuotaOk(k, m)

\* Mutant: a lock counts as expired at its expiry time already (<= for <).
CheckoutEligible_ExpiredAtDeadline(k, m, t) ==
  /\ is_active[k] = TRUE
  /\ \/ locked_by_job_id[k] = NoJob
     \/ (locked_until[k] # NoTime /\ locked_until[k] <= t)
  /\ ModelQuotaOk(k, m)

\* The WHERE clause of the SELECT, evaluated at transaction time t.
CheckoutEligible(k, m, t) ==
  /\ is_active[k] = TRUE
  /\ \/ locked_by_job_id[k] = NoJob
     \/ (locked_until[k] # NoTime /\ locked_until[k] < t)
  /\ ModelQuotaOk(k, m)

\* A row is row-locked while a checkout transaction that selected it is open.
RowLockedByOther(k, j) ==
  \E o \in JobIds \ {j} : txn[o].pc = "locked" /\ txn[o].key = k

\* Mutant: plain FOR UPDATE rows are not skipped (the row lock is ignored).
CheckoutCandidates_NoSkipLocked(j, m, t) ==
  {k \in Keys : CheckoutEligible(k, m, t)}

\* FOR UPDATE SKIP LOCKED: eligible rows that no open transaction has locked.
CheckoutCandidates(j, m, t) ==
  {k \in Keys : CheckoutEligible(k, m, t) /\ ~RowLockedByOther(k, j)}

\* ORDER BY ak.updated_at ASC LIMIT 1 (ties in any order).
LeastRecentlyUsed(S) ==
  {k \in S : \A o \in S : updated_at[k] <= updated_at[o]}

\* The SELECT ... INTO v_key_record, and the early RETURN when it found no row.
CheckoutSelect(j, m, mins) ==
  /\ txn[j].pc = "idle"
  /\ LET cand == LeastRecentlyUsed(CheckoutCandidates(j, m, now)) IN
       IF cand = {}
       THEN /\ returned' = [returned EXCEPT ![j] = NoKey]
            /\ UNCHANGED txn
       ELSE \E k \in cand :
              /\ txn' = [txn EXCEPT ![j] = [pc |-> "locked", key |-> k,
                                            at |-> now, until |-> now + mins]]
              /\ UNCHANGED returned
  /\ lastOp' = Op("checkout_select", j, NoKey)
  /\ UNCHANGED <<poolVars, held, fetched, outsidePool>>

\* The UPDATE, RETURN NEXT and the commit that makes them visible. now() is the
\* transaction's start time.
CheckoutCommit(j) ==
  /\ txn[j].pc = "locked"
  /\ LET k == txn[j].key IN
       /\ locked_by_job_id' = [locked_by_job_id EXCEPT ![k] = j]
       /\ locked_until' = [locked_until EXCEPT ![k] = txn[j].until]
       /\ updated_at' = [updated_at EXCEPT ![k] = txn[j].at]
       /\ returned' = [returned EXCEPT ![j] = k]
       /\ held' = [held EXCEPT ![j] =
                     {g \in held[j] : g.until >= now /\ g.key # k}
                       \cup {[key |-> k, until |-> txn[j].until]}]
  /\ txn' = [txn EXCEPT ![j] = IdleTxn]
  /\ lastOp' = Op("checkout_commit", j, txn[j].key)
  /\ UNCHANGED <<now, is_active, error_count, quota, fetched, outsidePool>>

\* Rows an UPDATE must write that an open checkout has locked make it wait.
Blocked(rows) == \E k \in rows : \E o \in JobIds : txn[o].pc = "locked" /\ txn[o].key = k

\* Mutant: the lock of every credential is cleared.
ReleaseRows_All(j) == Keys

\* WHERE locked_by_job_id = p_job_id
ReleaseRows(j) == {k \in Keys : locked_by_job_id[k] = j}

release_api_key(j) ==
  /\ txn[j].pc = "idle"
  /\ ~Blocked(ReleaseRows(j))
  /\ locked_by_job_id' = [k \in Keys |->
        IF k \in ReleaseRows(j) THEN NoJob ELSE locked_by_job_id[k]]
  /\ locked_until' = [k \in Keys |->
        IF k \in ReleaseRows(j) THEN NoTime ELSE locked_until[k]]
  /\ updated_at' = [k \in Keys |->
        IF k \in ReleaseRows(j) THEN now ELSE updated_at[k]]
  /\ held' = [held EXCEPT ![j] = {}]
  /\ lastOp' = Op("release", j, NoKey)
  /\ UNCHANGED <<now, is_active, error_count, quota, txn, returned, fetched, outsidePool>>

\* Time passes.
Tick ==
  /\ now < MaxNow
  /\ now' = now + 1
  /\ lastOp' = Op("tick", NoJob, NoKey)
  /\ UNCHANGED <<is_active, error_count, locked_by_job_id, locked_until,
                 updated_at, quota, lockVars, fetched, outsidePool>>

(***************************************************************************)
(* Specification of the locking functions.                                 *)
(***************************************************************************)
PoolRest ==
  /\ now = 0
  /\ locked_by_job_id = [k \in Keys |-> NoJob]
  /\ locked_until = [k \in Keys |-> NoTime]
  /\ updated_at = [k \in Keys |-> 0]
  /\ quota = [k \in Keys |-> [c \in Cols |-> NoQuota]]
  /\ txn = [j \in JobIds |-> IdleTxn]
  /\ returned = [j \in JobIds |-> NoCall]
  /\ held = [j \in JobIds |-> {}]
  /\ fetched = <<>>
  /\ lastOp = Op("init", NoJob, NoKey)

\* No submission is being prepared.
MediaRest ==
  /\ file_paths = <<>>
  /\ orderedSegments = <<>>
  /\ audioFiles = <<>>
  /\ contentParts = <<>>
  /\ media = [pc |-> "off", kind |-> "none", i |-> 0]

\* No result is being assembled.
AssembleRest ==
  /\ evaluationResult = NoEvaluation
  /\ assembled = NotAssembling

\* No text is being parsed and no hook is mounted.
ClientRest ==
  /\ parse = NoParse
  /\ polling = NoPolling
  /\ speech = NoSpeech

\* No request has been received, the tables of jobs and results are empty.
NoRequests ==
  /\ jobs = <<>>
  /\ result_rows = {}
  /\ req = [r \in Reqs |-> NewReq("u1", NoJobId)]

\* No evaluation run exists.
DriverRest ==
  /\ userSecret = [p \in Procs |-> FALSE]
  /\ drv = [p \in Procs |-> OffDrv]
  /\ obs = [p \in Procs |-> NoObs]

Init ==
  /\ PoolRest
  /\ DriverRest
  /\ NoRequests
  /\ is_active \in [Keys -> BOOLEAN]
  /\ error_count = [k \in Keys |-> 0]
  /\ MediaRest
  /\ AssembleRest
  /\ ClientRest

Next ==
  \/ \E j \in JobIds, m \in {GEMINI_MODELS[1], GEMINI_MODELS[2]},
        mins \in {1, DefaultLockMinutes} : CheckoutSelect(j, m, mins)
  \/ \E j \in JobIds : CheckoutCommit(j)
  \/ \E j \in JobIds : release_api_key(j)
  \/ Tick

Spec == Init /\ [][Next]_vars

(***************************************************************************)
(* Quota ledger: apiKeyQuotaUtils.ts and reset_api_key_model_quotas.       *)
(***************************************************************************)
\* getQuotaFieldNames: the bucket of a model type; an unknown type falls to the
\* default branch.
QuotaField(modelType) ==
  CASE modelType = "tts" -> "tts"
    [] modelType = "flash_2_5" -> "flash_2_5"
    [] OTHER -> "flash_2_5"

\* The model types callers pass ('flash' is what the synchronous driver passes).
ModelTypes == {"flash_2_5", "tts", "flash"}

\* markKeyQuotaExhausted: flag, today's date and updated_at of one row.
markKeyQuotaExhausted(k, modelType) ==
  /\ ~Blocked({k})
  /\ quota' = [quota EXCEPT ![k][QuotaField(modelType)] =
                 [exhausted |-> TRUE, date |-> Today(now)]]
  /\ updated_at' = [updated_at EXCEPT ![k] = now]
  /\ lastOp' = Op("mark", k, QuotaField(modelType))
  /\ fetched' = <<>>
  /\ UNCHANGED <<now, is_active, error_count, locked_by_job_id, locked_until, lockVars,
                 outsidePool>>

\* (col_exhausted = true AND col_exhausted_date < CURRENT_DATE)
StaleCol(q, t) == q.exhausted = TRUE /\ q.date # NoTime /\ q.date < Today(t)

\* WHERE is_active = true AND (one of the columns is stale)
SweepRows(t) == {k \in Keys : is_active[k] = TRUE /\ \E c \in Cols : StaleCol(quota[k][c], t)}

\* The SET list of both branches: every quota column of the row.
ClearedRow == [c \in Cols |-> NoQuota]

\* reset_api_key_model_quotas(NULL), which reset_api_key_quotas() performs.
SweptQuota(t) == [k \in Keys |-> IF k \in SweepRows(t) THEN ClearedRow ELSE quota[k]]
SweptUpdatedAt(t) == [k \in Keys |-> IF k \in SweepRows(t) THEN t ELSE updated_at[k]]

reset_api_key_quotas ==
  /\ ~Blocked(SweepRows(now))
  /\ quota' = SweptQuota(now)
  /\ updated_at' = SweptUpdatedAt(now)
  /\ lastOp' = Op("sweep", NoJob, NoKey)
  /\ fetched' = <<>>
  /\ UNCHANGED <<now, is_active, error_count, locked_by_job_id, locked_until, lockVars,
                 outsidePool>>

\* reset_api_key_model_quotas(p_key_id) for one key: WHERE id = p_key_id.
reset_api_key_model_quotas(k) ==
  /\ ~Blocked({k})
  /\ quota' = [quota EXCEPT ![k] = ClearedRow]
  /\ updated_at' = [updated_at EXCEPT ![k] = now]
  /\ lastOp' = Op("reset_key", k, NoKey)
  /\ fetched' = <<>>
  /\ UNCHANGED <<now, is_active, error_count, locked_by_job_id, locked_until, lockVars,
                 outsidePool>>

\* resetKeyQuota (admin): one bucket, or the five legacy buckets when no type is given.
resetKeyQuota(k, types) ==
  /\ ~Blocked({k})
  /\ quota' = [quota EXCEPT ![k] = [c \in Cols |->
                 IF c \in {QuotaField(ty) : ty \in types} THEN NoQuota ELSE quota[k][c]]]
  /\ updated_at' = [updated_at EXCEPT ![k] = now]
  /\ lastOp' = Op("admin_reset", k, NoKey)
  /\ fetched' = <<>>
  /\ UNCHANGED <<now, is_active, error_count, locked_by_job_id, locked_until, lockVars,
                 outsidePool>>

\* Mutant: the date is not consulted, a set flag always hides the row.
ActiveKeysFilter_FlagOnly(q, modelType, t) ==
  {k \in Keys : is_active[k] = TRUE /\ q[k][QuotaField(modelType)].exhausted = FALSE}

\* .eq('is_active', true).or(`${quotaField}.is.null,${quotaField}.eq.false,
\* ${quotaDateField}.lt.${today}`) over the table content q.
ActiveKeysFilter(q, modelType, t) ==
  {k \in Keys :
     /\ is_active[k] = TRUE
     /\ \/ q[k][QuotaField(modelType)].exhausted = FALSE
        \/ (q[k][QuotaField(modelType)].date # NoTime
              /\ q[k][QuotaField(modelType)].date < Today(t))}

\* .order('error_count', { ascending: true }): every listing of S in that order.
OrderedByErrorCount(S) ==
  {sq \in [1..Cardinality(S) -> S] :
     /\ \A i \in 1..Cardinality(S), j \in 1..Cardinality(S) :
          /\ (i # j => sq[i] # sq[j])
          /\ (i < j => error_count[sq[i]] <= error_count[sq[j]])}

\* getActiveGeminiKeysForModel: the sweep rpc (its error is not looked at, so the
\* fetch follows whether or not the sweep ran), then the filtered, ordered fetch.
getActiveGeminiKeysForModel(modelType, rpcOk) ==
  /\ rpcOk => ~Blocked(SweepRows(now))
  /\ quota' = IF rpcOk THEN SweptQuota(now) ELSE quota
  /\ updated_at' = IF rpcOk THEN SweptUpdatedAt(now) ELSE updated_at
  /\ fetched' \in OrderedByErrorCount(
                    ActiveKeysFilter(IF rpcOk THEN SweptQuota(now) ELSE quota,
                                     modelType, now))
  /\ lastOp' = Op("get_active", modelType, IF rpcOk THEN "rpc_ok" ELSE "rpc_failed")
  /\ UNCHANGED <<now, is_active, error_count, locked_by_job_id, locked_until, lockVars,
                 outsidePool>>

QuotaInit ==
  /\ PoolRest
  /\ DriverRest
  /\ NoRequests
  /\ is_active \in [Keys -> BOOLEAN]
  /\ error_count \in {[k \in Keys |-> 0], [k \in Keys |-> IF k = "k1" THEN 1 ELSE 0]}
  /\ MediaRest
  /\ AssembleRest
  /\ ClientRest

QuotaNext ==
  \/ \E k \in Keys, ty \in ModelTypes : markKeyQuotaExhausted(k, ty)
  \/ reset_api_key_quotas
  \/ \E k \in Keys : reset_api_key_model_quotas(k)
  \/ \E k \in Keys, types \in {{"flash_2_5"}, {"tts"}, {"flash_2_5", "tts"}} :
        resetKeyQuota(k, types)
  \/ \E ty \in ModelTypes, rpcOk \in BOOLEAN : getActiveGeminiKeysForModel(ty, rpcOk)
  \/ Tick

SpecQuota == QuotaInit /\ [][QuotaNext]_vars


\* isExhausted of the ledger: the flag is set and the date is the current date.
ExhaustedToday(k, c) == quota[k][c].exhausted = TRUE /\ quota[k][c].date = Today(now)

(***************************************************************************)
(* The quota ledger and the locking functions over one table.              *)
(***************************************************************************)
\* The quota column checkout_api_key reads for a model name.
ModelColumn(m) ==
  CASE m = "gemini-2.5-flash" -> "gemini_2_5_flash"
    [] m = "gemini-2.0-flash" -> "gemini_2_0_flash"

\* The buckets of a credential that stand for the quota of model m: the category
\* bucket the drivers mark and the column checkout_api_key reads.
BucketsOf(m) == {QuotaField("flash_2_5"), ModelColumn(m)}

\* A writer of the per-model columns: flag and today's date, as the ledger's
\* markExhausted does for a bucket.
markModelExhausted(k, c) ==
  /\ ~Blocked({k})
  /\ quota' = [quota EXCEPT ![k][c] = [exhausted |-> TRUE, date |-> Today(now)]]
  /\ updated_at' = [updated_at EXCEPT ![k] = now]
  /\ lastOp' = Op("mark_model", k, c)
  /\ fetched' = <<>>
  /\ UNCHANGED <<now, is_active, error_count, locked_by_job_id, locked_until, lockVars,
                 outsidePool>>

\* The one job that checks credentials out here.
LedgerJob == "j1"

LedgerLockInit ==
  /\ PoolRest
  /\ DriverRest
  /\ NoRequests
  /\ MediaRest
  /\ AssembleRest
  /\ ClientRest
  /\ is_active = [k \in Keys |-> TRUE]
  /\ error_count = [k \in Keys |-> 0]

LedgerLockNext ==
  \/ \E k \in Keys : markKeyQuotaExhausted(k, "flash_2_5")
  \/ \E k \in Keys : markModelExhausted(k, ModelColumn(GEMINI_MODELS[1]))
  \/ \E k \in Keys : resetKeyQuota(k, {"flash_2_5"})
  \/ CheckoutSelect(LedgerJob, GEMINI_MODELS[1], DefaultLockMinutes)
  \/ CheckoutCommit(LedgerJob)
  \/ release_api_key(LedgerJob)
  \/ Tick

SpecLedgerLock == LedgerLockInit /\ [][LedgerLockNext]_vars

(***************************************************************************)
(* C17: after a driver has marked a pool credential's bucket exhausted for *)
(* a model category, checkout_api_key for a model of that category does    *)
(* not return that credential for the rest of that day, unless an          *)
(* administrator reset the bucket: a checkout never returns a credential   *)
(* whose category bucket is flagged with today's date.                     *)
(***************************************************************************)
C17_MarkedKeyNotCheckedOut ==
  lastOp.op = "checkout_commit" => ~ExhaustedToday(lastOp.arg, QuotaField("flash_2_5"))

(***************************************************************************)
(* C18: checkout_api_key treats a bucket whose exhaustion was recorded on  *)
(* an earlier day as not exhausted: an active, unlocked credential whose   *)
(* buckets for the model are flagged only with earlier days is eligible,   *)
(* with no reset having cleared the flag.                                  *)
(***************************************************************************)
StaleOnly(k, m) ==
  /\ \E c \in BucketsOf(m) : StaleCol(quota[k][c], now)
  /\ \A c \in BucketsOf(m) : ~ExhaustedToday(k, c)

C18_StaleBucketEligible ==
  \A k \in Keys : \A m \in {GEMINI_MODELS[1], GEMINI_MODELS[2]} :
    (is_active[k] = TRUE /\ locked_by_job_id[k] = NoJob /\ StaleOnly(k, m))
      => CheckoutEligible(k, m, now)

(***************************************************************************)
(* The evaluation drivers: key queue, then keys x models x attempts.       *)
(* runEvaluation (evaluate-speaking-async, kind "async") and the serve     *)
(* handler of evaluate-speaking-submission (kind "sync").                  *)
(***************************************************************************)
\* What a thrown model error carries.  tokens are the phrases the classifiers
\* look for in the lower-cased message: "billing" ('check your plan' or
\* 'billing'), "limit0" ('limit: 0'), "perday" ('per day'), "retry" (the word
\* 'retry'), "quota" ('quota' or 'resource exhausted'); status is err.status;
\* retry is the delay in a 'retryDelay":"Ns"' or 'retry in Ns' phrase.
ErrTokens == {"billing", "limit0", "perday", "retry", "quota"}
ErrStatuses == {"none", "429", "403", "RESOURCE_EXHAUSTED"}
RetryDelays == {0, 2, 5}
Errors ==
  {e \in [tokens : SUBSET ErrTokens, status : ErrStatuses,
          retry : RetryDelays \cup {NoRetry}] :
     e.retry # NoRetry => "retry" \in e.tokens}
NoError == [tokens |-> {}, status |-> "none", retry |-> NoRetry]
\* parsed: text that parseJson accepts; unparseable: empty text or text it rejects.
Results == {"parsed", "unparseable", "error"}

extractRetryAfterSeconds(err) == err.retry

isPermanentQuotaExhausted(err) ==
  \/ "billing" \in err.tokens
  \/ "limit0" \in err.tokens
  \/ ("perday" \in err.tokens /\ "retry" \notin err.tokens)

\* String(err?.message || ''): the message alone, a string has no status.
ErrMsg(err) == [err EXCEPT !.status = "none"]

isQuotaExhaustedError(error) ==
  \/ error.status = "RESOURCE_EXHAUSTED"
  \/ "quota" \in error.tokens
  \/ "billing" \in error.tokens

\* isQuotaLike of the synchronous driver.
isQuotaLike(modelError) ==
  \/ isQuotaExhaustedError(modelError)
  \/ modelError.status = "429"
  \/ modelError.status = "403"

\* permanent of the synchronous driver.
SyncPermanent(modelError) ==
  \/ isPermanentQuotaExhausted(modelError)
  \/ extractRetryAfterSeconds(modelError) = NoRetry

\* Mutant: a rate limit that outlasts the attempts is thrown as permanent.
AsyncDecision_PermanentWhenUsedUp(res, err, attempt) ==
  CASE res = "parsed" -> "result"
    [] res = "unparseable" -> "next_model"
    [] OTHER ->
         IF isPermanentQuotaExhausted(err) THEN "throw_permanent"
         ELSE IF isQuotaExhaustedError(ErrMsg(err))
              THEN (IF attempt < MAX_RETRIES - 1 THEN "retry" ELSE "throw_permanent")
              ELSE (IF attempt < MAX_RETRIES - 1 THEN "retry" ELSE "next_model")

\* Mutant: output that cannot be parsed is retried like a failed call.
AsyncDecision_RetryUnparseable(res, err, attempt) ==
  CASE res = "parsed" -> "result"
    [] res = "unparseable" -> (IF attempt < MAX_RETRIES - 1 THEN "retry" ELSE "next_model")
    [] OTHER ->
         IF isPermanentQuotaExhausted(err) THEN "throw_permanent"
         ELSE IF isQuotaExhaustedError(ErrMsg(err))
              THEN (IF attempt < MAX_RETRIES - 1 THEN "retry" ELSE "throw_temporary")
              ELSE (IF attempt < MAX_RETRIES - 1 THEN "retry" ELSE "next_model")

\* Mutant: the attempts are counted one too many (attempt <= MAX_RETRIES - 1).
AsyncDecision_OneAttemptMore(res, err, attempt) ==
  CASE res = "parsed" -> "result"
    [] res = "unparseable" -> "next_model"
    [] OTHER ->
         IF isPermanentQuotaExhausted(err) THEN "throw_permanent"
         ELSE IF isQuotaExhaustedError(ErrMsg(err))
              THEN (IF attempt <= MAX_RETRIES - 1 THEN "retry" ELSE "throw_temporary")
              ELSE (IF attempt <= MAX_RETRIES - 1 THEN "retry" ELSE "next_model")

\* The background driver's handling of one model call at the given attempt.
AsyncDecision(res, err, attempt) ==
  CASE res = "parsed" -> "result"
    [] res = "unparseable" -> "next_model"
    [] OTHER ->
         IF isPermanentQuotaExhausted(err) THEN "throw_permanent"
         ELSE IF isQuotaExhaustedError(ErrMsg(err))
              THEN (IF attempt < MAX_RETRIES - 1 THEN "retry" ELSE "throw_temporary")
              ELSE (IF attempt < MAX_RETRIES - 1 THEN "retry" ELSE "next_model")

\* Mutant: a quota error on any model is thrown to the key loop at once.
SyncDecision_ThrowAtOnce(res, err, attempt, mi) ==
  CASE res = "parsed" -> "result"
    [] res = "unparseable" -> "next_model"
    [] OTHER ->
         IF ~isQuotaLike(err) THEN "next_model"
         ELSE IF SyncPermanent(err) THEN "throw_permanent" ELSE "throw_temporary"

\* Mutant: a failure that is no quota error is retried once on the same model.
SyncDecision_RetryOther(res, err, attempt, mi) ==
  CASE res = "parsed" -> "result"
    [] res = "unparseable" -> "next_model"
    [] OTHER ->
         IF ~isQuotaLike(err)
         THEN (IF attempt + 1 < SYNC_ATTEMPTS THEN "retry" ELSE "next_model")
         ELSE IF /\ ~SyncPermanent(err)
                 /\ extractRetryAfterSeconds(err) > 0
                 /\ attempt = 0
                 /\ attempt + 1 < SYNC_ATTEMPTS
              THEN "wait_retry"
              ELSE IF mi # Len(GEMINI_MODELS) THEN "next_model"
                   ELSE IF SyncPermanent(err) THEN "throw_permanent"
                        ELSE "throw_temporary"

\* The synchronous driver's handling of one call of model number mi.
SyncDecision(res, err, attempt, mi) ==
  CASE res = "parsed" -> "result"
    [] res = "unparseable" -> "next_model"
    [] OTHER ->
         IF ~isQuotaLike(err) THEN "next_model"
         ELSE IF /\ ~SyncPermanent(err)
                 /\ extractRetryAfterSeconds(err) > 0
                 /\ attempt = 0
                 /\ attempt + 1 < SYNC_ATTEMPTS
              THEN "wait_retry"
              ELSE IF mi # Len(GEMINI_MODELS) THEN "next_model"
                   ELSE IF SyncPermanent(err) THEN "throw_permanent"
                        ELSE "throw_temporary"

\* The kind of failure each driver takes a thrown error for: the background driver
\* tests isPermanentQuotaExhausted, then isQuotaExhaustedError on the message; the
\* synchronous one tests isQuotaLike, then permanent.
Classify(kind, err) ==
  IF kind = "async"
  THEN (IF isPermanentQuotaExhausted(err) THEN "permanent"
        ELSE IF isQuotaExhaustedError(ErrMsg(err)) THEN "transient" ELSE "other")
  ELSE (IF ~isQuotaLike(err) THEN "other"
        ELSE IF SyncPermanent(err) THEN "permanent" ELSE "transient")

Decision(d, res, err) ==
  IF d.kind = "async" THEN AsyncDecision(res, err, d.attempt)
  ELSE SyncDecision(res, err, d.attempt, d.mi)

\* keyQueue: the caller's own key first, then the pool rows in fetch order.
UserCandidate == [keyId |-> NoKey, isUserProvided |-> TRUE]
NoCandidate == [keyId |-> NoKey, isUserProvided |-> FALSE]

\* Mutant: the pool credentials are queued before the caller's own key.
KeyQueue_PoolFirst(hasUserKey, db) ==
  [i \in 1..Len(db) |-> [keyId |-> db[i], isUserProvided |-> FALSE]]
    \o (IF hasUserKey THEN <<UserCandidate>> ELSE <<>>)

KeyQueue(hasUserKey, db) ==
  (IF hasUserKey THEN <<UserCandidate>> ELSE <<>>)
    \o [i \in 1..Len(db) |-> [keyId |-> db[i], isUserProvided |-> FALSE]]

IdleDrv(kind) == [OffDrv EXCEPT !.pc = "idle", !.kind = kind]

MinRetry(best, r) == IF best = NoRetry \/ r < best THEN r ELSE best

\* The loops are over: the background driver throws, the synchronous one answers
\* 429 RATE_LIMITED if it saw a temporary rate limit and 503 otherwise.
Finish(d) ==
  [d EXCEPT !.pc = "done",
            !.outcome = IF d.kind = "async" THEN "all_exhausted"
                        ELSE IF d.sawTemporaryRateLimit THEN "RATE_LIMITED"
                        ELSE "ALL_KEYS_EXHAUSTED"]

\* for (const candidateKey of keyQueue): the next candidate, or the end of the loop.
NextKeyState(d) ==
  IF d.ki < Len(d.keyQueue)
  THEN [d EXCEPT !.ki = d.ki + 1, !.mi = 1, !.attempt = 0,
                 !.pc = IF d.kind = "async" THEN "upload" ELSE "call"]
  ELSE Finish(d)

\* Mutant: the model loop starts the same model again.
NextModelState_SameModel(d) == [d EXCEPT !.attempt = 0, !.pc = "call"]

\* for (const modelName of GEMINI_MODELS): the next model with the same key; after
\* the last model the try block ends and the key loop goes on.
NextModelState(d) ==
  IF d.mi < Len(GEMINI_MODELS)
  THEN [d EXCEPT !.mi = d.mi + 1, !.attempt = 0, !.pc = "call"]
  ELSE NextKeyState(d)

\* The catch of a temporary QuotaError in the synchronous driver.
SawTemporary(d, err) ==
  [d EXCEPT !.sawTemporaryRateLimit = TRUE,
            !.bestRetryAfterSeconds =
               IF extractRetryAfterSeconds(err) > 0
               THEN MinRetry(d.bestRetryAfterSeconds, extractRetryAfterSeconds(err))
               ELSE d.bestRetryAfterSeconds]

\* Mutant: a permanent exhaustion only ends the model, the key is kept.
AfterCall_PermanentKeepsKey(d, dec, err) ==
  CASE dec = "result" ->
         [d EXCEPT !.pc = "done", !.outcome = "result",
                   !.usedModel = GEMINI_MODELS[d.mi], !.usedKey = d.keyQueue[d.ki]]
    [] dec = "retry" -> [d EXCEPT !.attempt = d.attempt + 1, !.pc = "call"]
    [] dec = "wait_retry" ->
         [SawTemporary(d, err) EXCEPT !.attempt = d.attempt + 1, !.pc = "call"]
    [] dec = "next_model" -> NextModelState(d)
    [] dec = "throw_permanent" -> NextModelState(d)
    [] OTHER -> IF d.kind = "async" THEN NextKeyState(d)
                ELSE NextKeyState(SawTemporary(d, err))

\* Mutant: the result is recorded but the model loop goes on (no break on success).
AfterCall_ResultKeepsLooping(d, dec, err) ==
  CASE dec = "result" ->
         [NextModelState(d) EXCEPT !.outcome = "result",
                   !.usedModel = GEMINI_MODELS[d.mi], !.usedKey = d.keyQueue[d.ki]]
    [] dec = "retry" -> [d EXCEPT !.attempt = d.attempt + 1, !.pc = "call"]
    [] dec = "wait_retry" ->
         [SawTemporary(d, err) EXCEPT !.attempt = d.attempt + 1, !.pc = "call"]
    [] dec = "next_model" -> NextModelState(d)
    [] dec = "throw_permanent" -> NextKeyState(d)
    [] OTHER -> IF d.kind = "async" THEN NextKeyState(d)
                ELSE NextKeyState(SawTemporary(d, err))

\* The driver's locals after it handled the outcome of a model call.
AfterCall(d, dec, err) ==
  CASE dec = "result" ->
         [d EXCEPT !.pc = "done", !.outcome = "result",
                   !.usedModel = GEMINI_MODELS[d.mi], !.usedKey = d.keyQueue[d.ki]]
    [] dec = "retry" -> [d EXCEPT !.attempt = d.attempt + 1, !.pc = "call"]
    [] dec = "wait_retry" ->
         [SawTemporary(d, err) EXCEPT !.attempt = d.attempt + 1, !.pc = "call"]
    [] dec = "next_model" -> NextModelState(d)
    [] dec = "throw_permanent" -> NextKeyState(d)
    [] OTHER -> IF d.kind = "async" THEN NextKeyState(d)
                ELSE NextKeyState(SawTemporary(d, err))

\* Mutant: the ledger write is made for the caller's own key too.
MarksKey_AnyCandidate(d, dec) == dec = "throw_permanent"

\* if (!candidateKey.isUserProvided && candidateKey.keyId) markKeyQuotaExhausted
MarksKey(d, dec) ==
  /\ dec = "throw_permanent"
  /\ ~d.keyQueue[d.ki].isUserProvided
  /\ d.keyQueue[d.ki].keyId # NoKey

\* The quota category the driver passes to the ledger.
DriverModelType(kind) == IF kind = "async" THEN "flash_2_5" ELSE "flash"

\* What a driver step leaves alone besides the ledger columns it writes.
outsideDriver == <<now, is_active, error_count, locked_by_job_id, locked_until,
                   lockVars, userSecret, jobs, result_rows, req, mediaVars,
                   assembleVars, clientVars>>

\* BUILD API KEY QUEUE: the caller's key (request header in the synchronous driver,
\* else the decrypted user secret), then getActiveGeminiKeysForModel: the sweep rpc
\* and the fetch.  An empty queue ends the run.
BuildQueue(p, headerApiKey, decryptOk, rpcOk) ==
  /\ drv[p].pc = "idle"
  /\ rpcOk => ~Blocked(SweepRows(now))
  /\ \E db \in OrderedByErrorCount(
                  ActiveKeysFilter(IF rpcOk THEN SweptQuota(now) ELSE quota,
                                   DriverModelType(drv[p].kind), now)) :
       /\ fetched' = db
       /\ drv' = [drv EXCEPT ![p] =
            LET q == KeyQueue(IF drv[p].kind = "sync" /\ headerApiKey THEN TRUE
                              ELSE userSecret[p] /\ decryptOk, db)
            IN  IF Len(q) = 0
                THEN [@ EXCEPT !.pc = "done", !.outcome = "no_keys"]
                ELSE [@ EXCEPT !.keyQueue = q, !.ki = 1, !.mi = 1, !.attempt = 0,
                               !.pc = IF drv[p].kind = "async" THEN "upload" ELSE "call"]]
  /\ quota' = IF rpcOk THEN SweptQuota(now) ELSE quota
  /\ updated_at' = IF rpcOk THEN SweptUpdatedAt(now) ELSE updated_at
  /\ lastOp' = Op("build_queue", p, IF rpcOk THEN "rpc_ok" ELSE "rpc_failed")
  /\ UNCHANGED <<outsideDriver, obs>>

\* UPLOAD FILES TO GOOGLE FILE API with the candidate key (background driver); a
\* failed upload is a key error: next key.
UploadFiles(p, ok) ==
  /\ drv[p].pc = "upload"
  /\ drv' = [drv EXCEPT ![p] = IF ok THEN [@ EXCEPT !.pc = "call"]
                               ELSE NextKeyState(@)]
  /\ lastOp' = Op("upload", p, IF ok THEN "ok" ELSE "failed")
  /\ fetched' = <<>>
  /\ UNCHANGED <<outsideDriver, quota, updated_at, obs>>

\* model.generateContent is sent with keyQueue[ki] for GEMINI_MODELS[mi]; the call
\* in flight has no outcome yet.
CallStart(p) ==
  /\ drv[p].pc = "call"
  /\ drv' = [drv EXCEPT ![p].pc = "calling"]
  /\ obs' = [obs EXCEPT ![p].lastCall = NoModelCall]
  /\ lastOp' = Op("call_start", p, drv[p].keyQueue[drv[p].ki].keyId)
  /\ fetched' = <<>>
  /\ UNCHANGED <<outsideDriver, quota, updated_at>>

\* The call returns res (err when it threw); the driver handles it up to its next
\* call, upload or exit, the ledger write of a permanent exhaustion included.
CallEnd(p, res, err) ==
  /\ drv[p].pc = "calling"
  /\ LET d == drv[p]
         dec == Decision(d, res, err)
         k == d.keyQueue[d.ki].keyId
     IN  /\ MarksKey(d, dec) => ~Blocked({k})
         /\ drv' = [drv EXCEPT ![p] = AfterCall(d, dec, err)]
         /\ quota' = IF MarksKey(d, dec)
                     THEN [quota EXCEPT ![k][QuotaField(DriverModelType(d.kind))] =
                             [exhausted |-> TRUE, date |-> Today(now)]]
                     ELSE quota
         /\ updated_at' = IF MarksKey(d, dec) THEN [updated_at EXCEPT ![k] = now]
                          ELSE updated_at
         /\ obs' = [obs EXCEPT ![p] =
              [lastCall |-> [ki |-> d.ki, mi |-> d.mi, res |-> res,
                             perm |-> res = "error" /\ isPermanentQuotaExhausted(err),
                             cls |-> IF res = "error" THEN Classify(d.kind, err)
                                     ELSE "none"],
               permFirst |-> IF d.mi # 1 THEN @.permFirst
                             ELSE IF res = "error" /\ isPermanentQuotaExhausted(err)
                                  THEN d.ki ELSE 0,
               marked |-> IF MarksKey(d, dec) THEN @.marked \cup {k} ELSE @.marked,
               sawPermanent |-> \/ @.sawPermanent
                                \/ (res = "error" /\ Classify(d.kind, err) = "permanent")]]
         /\ lastOp' = Op("call_end", p, dec)
  /\ fetched' = <<>>
  /\ UNCHANGED outsideDriver

\* One run of either driver, with or without a key of the caller, over a pool whose
\* flash bucket is clean, stale or exhausted today.
DriverQuotas == {NoQuota, [exhausted |-> TRUE, date |-> Today(DayLen) - 1],
                 [exhausted |-> TRUE, date |-> Today(DayLen)]}
DriverInit ==
  /\ now = DayLen
  /\ is_active = [k \in Keys |-> TRUE]
  /\ error_count = [k \in Keys |-> 0]
  /\ locked_by_job_id = [k \in Keys |-> NoJob]
  /\ locked_until = [k \in Keys |-> NoTime]
  /\ updated_at = [k \in Keys |-> 0]
  /\ \E f \in [Keys -> DriverQuotas] :
       quota = [k \in Keys |-> [c \in Cols |-> IF c = "flash_2_5" THEN f[k] ELSE NoQuota]]
  /\ txn = [j \in JobIds |-> IdleTxn]
  /\ returned = [j \in JobIds |-> NoCall]
  /\ held = [j \in JobIds |-> {}]
  /\ fetched = <<>>
  /\ lastOp = Op("init", NoJob, NoKey)
  /\ userSecret \in {[p \in Procs |-> FALSE], [p \in Procs |-> p = "p1"]}
  /\ \E kind \in {"async", "sync"} :
       drv = [p \in Procs |-> IF p = "p1" THEN IdleDrv(kind) ELSE OffDrv]
  /\ obs = [p \in Procs |-> NoObs]
  /\ NoRequests
  /\ MediaRest
  /\ AssembleRest
  /\ ClientRest

DriverNext ==
  \/ \E p \in Procs, headerApiKey \in BOOLEAN, decryptOk \in BOOLEAN, rpcOk \in BOOLEAN :
        BuildQueue(p, headerApiKey, decryptOk, rpcOk)
  \/ \E p \in Procs, ok \in BOOLEAN : UploadFiles(p, ok)
  \/ \E p \in Procs : CallStart(p)
  \/ \E p \in Procs, res \in Results :
        \E err \in (IF res = "error" THEN Errors ELSE {NoError}) : CallEnd(p, res, err)

SpecDriver == DriverInit /\ [][DriverNext]_vars

\* Two runs at once, one of each driver, neither caller with a key of their own,
\* over a pool with one usable credential.
ConcurrentInit ==
  /\ PoolRest
  /\ is_active = [k \in Keys |-> k = "k1"]
  /\ error_count = [k \in Keys |-> 0]
  /\ userSecret = [p \in Procs |-> FALSE]
  /\ drv = [p \in Procs |-> IdleDrv(IF p = "p1" THEN "async" ELSE "sync")]
  /\ obs = [p \in Procs |-> NoObs]
  /\ NoRequests
  /\ MediaRest
  /\ AssembleRest
  /\ ClientRest

\* A billing error, a per-minute limit with a retry delay, a failure of another kind.
ConcurrentErrors ==
  {[tokens |-> {"billing"}, status |-> "403", retry |-> NoRetry],
   [tokens |-> {"quota", "retry"}, status |-> "429", retry |-> 2],
   NoError}

ConcurrentNext ==
  \/ \E p \in Procs, rpcOk \in BOOLEAN : BuildQueue(p, FALSE, FALSE, rpcOk)
  \/ \E p \in Procs, ok \in BOOLEAN : UploadFiles(p, ok)
  \/ \E p \in Procs : CallStart(p)
  \/ \E p \in Procs, res \in Results :
        \E err \in (IF res = "error" THEN ConcurrentErrors ELSE {NoError}) :
           CallEnd(p, res, err)

SpecConcurrent == ConcurrentInit /\ [][ConcurrentNext]_vars

\* The candidate a run is using.
Candidate(p) == drv[p].keyQueue[drv[p].ki]

(***************************************************************************)
(* C2: while one evaluation run is invoking the model with a pool          *)
(* credential, no other running evaluation invokes the model with the same *)
(* pool credential.                                                        *)
(***************************************************************************)
C2_NoSharedCredentialInFlight ==
  \A p \in Procs : \A q \in Procs \ {p} :
    (/\ drv[p].pc = "calling"
     /\ drv[q].pc = "calling"
     /\ ~Candidate(p).isUserProvided
     /\ ~Candidate(q).isUserProvided)
    => Candidate(p).keyId # Candidate(q).keyId

(***************************************************************************)
(* C7: in the synchronous driver, when the first-priority model fails with *)
(* a permanent-quota error on a credential, the next call is the           *)
(* second-priority model with the same credential and the ledger is not    *)
(* written; when that call succeeds the run returns the second model's     *)
(* result, obtained with that credential, whose bucket is not marked       *)
(* exhausted.                                                              *)
(***************************************************************************)
FirstModelPermanentFailure(p) ==
  /\ drv[p].kind = "sync"
  /\ drv[p].pc = "calling"
  /\ drv[p].mi = 1
  /\ lastOp'.op = "call_end"
  /\ lastOp'.who = p
  /\ obs'[p].lastCall.perm

SecondModelSameKey ==
  \A p \in Procs :
    FirstModelPermanentFailure(p) =>
      /\ drv'[p].pc = "call"
      /\ drv'[p].ki = drv[p].ki
      /\ drv'[p].mi = 2
      /\ quota' = quota

SecondModelSucceeded(p) ==
  /\ drv[p].kind = "sync"
  /\ drv[p].pc = "done"
  /\ obs[p].lastCall.res = "parsed"
  /\ obs[p].lastCall.mi = 2
  /\ obs[p].permFirst = obs[p].lastCall.ki

SecondModelResult ==
  \A p \in Procs :
    SecondModelSucceeded(p) =>
      /\ drv[p].outcome = "result"
      /\ drv[p].usedModel = GEMINI_MODELS[2]
      /\ drv[p].usedKey = drv[p].keyQueue[obs[p].permFirst]
      /\ drv[p].usedKey.keyId \notin obs[p].marked
      /\ (~drv[p].usedKey.isUserProvided =>
            ~ExhaustedToday(drv[p].usedKey.keyId, QuotaField("flash")))

CallReturns(p) ==
  /\ drv[p].pc = "calling"
  /\ lastOp'.op = "call_end"
  /\ lastOp'.who = p

\* The step writes nothing to the quota ledger.
NoLedgerWrite(p) == quota' = quota /\ obs'[p].marked = obs[p].marked

(***************************************************************************)
(* C11: a model failure that a driver classifies as a transient rate limit *)
(* does not make it mark the credential's bucket exhausted, whether it     *)
(* retries or has used up its attempts.                                    *)
(***************************************************************************)
TransientNotMarked ==
  \A p \in Procs :
    (CallReturns(p) /\ obs'[p].lastCall.cls = "transient") => NoLedgerWrite(p)

C11_TransientNeverMarksBucket == [][TransientNotMarked]_vars

\* The background driver gave up a pool credential after its last attempt was
\* rate-limited.
C11_Witness ==
  /\ lastOp = Op("call_end", "p1", "throw_temporary")
  /\ drv["p1"].kind = "async"
  /\ obs["p1"].lastCall.cls = "transient"
  /\ ~drv["p1"].keyQueue[obs["p1"].lastCall.ki].isUserProvided

(***************************************************************************)
(* C12: markKeyQuotaExhausted is never invoked for a candidate supplied by *)
(* the caller, and no failure of a call made with such a candidate changes *)
(* the quota ledger.                                                       *)
(***************************************************************************)
UserKeyNotMarked ==
  \A p \in Procs :
    (CallReturns(p) /\ Candidate(p).isUserProvided) => NoLedgerWrite(p)

C12_UserKeyNeverInLedger ==
  /\ [](\A p \in Procs : NoKey \notin obs[p].marked)
  /\ [][UserKeyNotMarked]_vars

\* A call made with the caller's key failed with a permanent-quota error.
C12_Witness ==
  /\ lastOp = Op("call_end", "p1", "throw_permanent")
  /\ drv["p1"].keyQueue[obs["p1"].lastCall.ki].isUserProvided
  /\ obs["p1"].lastCall.cls = "permanent"

(***************************************************************************)
(* C13: in the background driver, when a call with a pool-owned candidate  *)
(* fails with a permanent-quota error, the candidate's flash_2_5 bucket is *)
(* marked exhausted with the current date in the step that takes the       *)
(* driver to the next candidate (or to the end of the queue), and a        *)
(* candidate the run has marked is not used again in that run.             *)
(***************************************************************************)
PermanentMarkedThenNextKey ==
  \A p \in Procs :
    (/\ CallReturns(p)
     /\ drv[p].kind = "async"
     /\ ~Candidate(p).isUserProvided
     /\ obs'[p].lastCall.perm)
    => /\ quota'[Candidate(p).keyId]["flash_2_5"] =
            [exhausted |-> TRUE, date |-> Today(now)]
       /\ \/ (drv'[p].pc = "upload" /\ drv'[p].ki = drv[p].ki + 1)
          \/ (drv'[p].pc = "done" /\ drv[p].ki = Len(drv[p].keyQueue))

MarkedCandidateNotReused ==
  \A p \in Procs :
    drv[p].kind = "async" =>
      /\ \A i \in DOMAIN drv[p].keyQueue : \A j \in DOMAIN drv[p].keyQueue :
            i # j => drv[p].keyQueue[i] # drv[p].keyQueue[j]
      /\ drv[p].pc \in {"upload", "call", "calling"} =>
            Candidate(p).keyId \notin obs[p].marked

C13_PermanentMarkedBeforeAdvance ==
  [](MarkedCandidateNotReused) /\ [][PermanentMarkedThenNextKey]_vars

\* The first pool candidate was marked and the run is using the next one.
C13_Witness ==
  /\ drv["p1"].kind = "async"
  /\ drv["p1"].pc = "calling"
  /\ obs["p1"].marked # {}
  /\ ExhaustedToday(drv["p1"].keyQueue[drv["p1"].ki - 1].keyId, "flash_2_5")

(***************************************************************************)
(* C14: when the synchronous driver ends the candidate queue without a     *)
(* result, it reports RATE_LIMITED only if no failure of the run was a     *)
(* permanent exhaustion, and ALL_KEYS_EXHAUSTED if one was.                *)
(***************************************************************************)
C14_RateLimitedOnlyIfAllTransient ==
  \A p \in Procs :
    (/\ drv[p].kind = "sync"
     /\ drv[p].pc = "done"
     /\ drv[p].outcome \in {"RATE_LIMITED", "ALL_KEYS_EXHAUSTED"}
     /\ obs[p].sawPermanent)
    => drv[p].outcome = "ALL_KEYS_EXHAUSTED"

(***************************************************************************)
(* C8: the background driver abandons a credential only after every model  *)
(* of the priority list has been attempted with it: no outcome of a call   *)
(* of a model that is not the last of the list makes the driver go to the  *)
(* next credential or give up.                                             *)
(***************************************************************************)
KeyKeptUntilLastModel ==
  \A p \in Procs :
    (/\ drv[p].kind = "async"
     /\ drv[p].pc = "calling"
     /\ drv[p].mi < Len(GEMINI_MODELS))
    => /\ drv'[p].ki = drv[p].ki
       /\ drv'[p].outcome # "all_exhausted"

C8_AsyncExhaustsModelsPerKey == [][KeyKeptUntilLastModel]_vars

(***************************************************************************)
(* The background job state machine: the serve handler of                  *)
(* evaluate-speaking-async (creation and retry paths, processInBackground, *)
(* watchdog), the writes of runEvaluation to speaking_evaluation_jobs, and *)
(* cancel-speaking-job.                                                    *)
(***************************************************************************)
NonTerminal(status) == status \in {"pending", "processing"}
Terminal(status) == status \in {"completed", "failed"}

\* The rows of speaking_evaluation_jobs; a job's id is its position.
JobIdsOf(js) == 1..Len(js)

\* .eq('user_id', user.id).eq('test_id', testId).in('status', ['pending', 'processing'])
ExistingJobs(js, user, test) ==
  {j \in JobIdsOf(js) :
     js[j].user_id = user /\ js[j].test_id = test /\ NonTerminal(js[j].status)}

\* Mutant: the update sets the status and leaves last_error as it was.
FailRows_StatusOnly(js, S, msg) ==
  [j \in JobIdsOf(js) |->
     IF j \in S THEN [js[j] EXCEPT !.status = "failed"] ELSE js[j]]

\* UPDATE ... SET status, last_error on the rows S.
FailRows(js, S, msg) ==
  [j \in JobIdsOf(js) |->
     IF j \in S THEN [js[j] EXCEPT !.status = "failed", !.last_error = msg] ELSE js[j]]

\* The job-level lock columns and the stage column at their defaults.
NoLockToken == "null"
NoStage == "null"

NewJob(user, test) ==
  [user_id |-> user, test_id |-> test, status |-> "pending", last_error |-> "none",
   result_id |-> NoResult, stage |-> NoStage, lock_token |-> NoLockToken,
   lock_expires_at |-> NoTime]

\* EdgeRuntime.waitUntil(processInBackground()); EdgeRuntime.waitUntil(watchdog()):
\* the watchdog's timer starts at the current minute.
Scheduled(rq, j) ==
  [rq EXCEPT !.h = "done", !.job = j, !.run = "mark", !.wd = "waiting", !.at = now]

\* What a step on the job table leaves alone.
outsideJobs == <<poolVars, lockVars, driverVars, fetched, lastOp, mediaVars,
                 assembleVars, clientVars>>

\* Creation path: the select of the caller's pending/processing jobs for the test.
SelectExisting(r) ==
  /\ req[r].h = "start"
  /\ req[r].retryJobId = NoJobId
  /\ req' = [req EXCEPT ![r].h =
               IF ExistingJobs(jobs, req[r].user, req[r].testId) # {}
               THEN "cancel" ELSE "insert"]
  /\ UNCHANGED <<jobs, result_rows, outsideJobs>>

\* Creation path: the update that fails those jobs with the cancellation message.
CancelExisting(r) ==
  /\ req[r].h = "cancel"
  /\ jobs' = FailRows(jobs, ExistingJobs(jobs, req[r].user, req[r].testId),
                      "Cancelled: User submitted a new evaluation request.")
  /\ req' = [req EXCEPT ![r].h = "insert"]
  /\ UNCHANGED <<result_rows, outsideJobs>>

\* Creation path: the insert of the pending job; on success the runner and the
\* watchdog are scheduled for it, on jobError the handler answers 500.
InsertJob(r, ok) ==
  /\ req[r].h = "insert"
  /\ jobs' = IF ok THEN Append(jobs, NewJob(req[r].user, req[r].testId)) ELSE jobs
  /\ req' = [req EXCEPT ![r] = IF ok THEN Scheduled(@, Len(jobs) + 1)
                                ELSE [@ EXCEPT !.h = "done"]]
  /\ UNCHANGED <<result_rows, outsideJobs>>

\* Retry path: the job is read by id with the service client; 404 when absent.
FetchRetryJob(r) ==
  /\ req[r].h = "start"
  /\ req[r].retryJobId # NoJobId
  /\ req' = [req EXCEPT ![r].h =
               IF req[r].retryJobId \in JobIdsOf(jobs) THEN "retry_update" ELSE "done"]
  /\ UNCHANGED <<jobs, result_rows, outsideJobs>>

\* Retry path: status := processing, then the runner and the watchdog are
\* scheduled for the same job id.
UpdateProcessing(r) ==
  /\ req[r].h = "retry_update"
  /\ jobs' = [jobs EXCEPT ![req[r].retryJobId].status = "processing"]
  /\ req' = [req EXCEPT ![r] = Scheduled(@, req[r].retryJobId)]
  /\ UNCHANGED <<result_rows, outsideJobs>>

\* runEvaluation: Mark as processing.
MarkProcessing(r) ==
  /\ req[r].run = "mark"
  /\ jobs' = [jobs EXCEPT ![req[r].job].status = "processing"]
  /\ req' = [req EXCEPT ![r].run = "eval"]
  /\ UNCHANGED <<result_rows, outsideJobs>>

\* runEvaluation from the job fetch to the end of the key loop: it got a result
\* or threw an error.
Evaluate(r, thrown) ==
  /\ req[r].run = "eval"
  /\ req' = [req EXCEPT ![r].run = IF thrown = NoException THEN "save" ELSE "catch",
                        ![r].thrown = thrown]
  /\ UNCHANGED <<jobs, result_rows, outsideJobs>>

\* Mutant: a failed insert is thrown to the catch of processInBackground.
InsertResult_ThrowOnSaveError(r, saveOk) ==
  /\ req[r].run = "save"
  /\ result_rows' = IF saveOk THEN result_rows \cup {r} ELSE result_rows
  /\ req' = [req EXCEPT ![r].run = IF saveOk THEN "complete" ELSE "catch",
                        ![r].resultRow = IF saveOk THEN r ELSE NoResult,
                        ![r].thrown = IF saveOk THEN NoException ELSE "Job not found"]
  /\ UNCHANGED <<jobs, outsideJobs>>

\* runEvaluation: insert into ai_practice_results; saveError is only logged.
InsertResult(r, saveOk) ==
  /\ req[r].run = "save"
  /\ result_rows' = IF saveOk THEN result_rows \cup {r} ELSE result_rows
  /\ req' = [req EXCEPT ![r].run = "complete",
                        ![r].resultRow = IF saveOk THEN r ELSE NoResult]
  /\ UNCHANGED <<jobs, outsideJobs>>

\* runEvaluation: Mark job as completed, result_id: resultRow?.id. Without a row
\* the field is undefined, which the update leaves out: the column keeps its value.
MarkCompleted(r) ==
  /\ req[r].run = "complete"
  /\ jobs' = [jobs EXCEPT ![req[r].job].status = "completed",
                          ![req[r].job].result_id =
                             IF req[r].resultRow = NoResult THEN @ ELSE req[r].resultRow]
  /\ req' = [req EXCEPT ![r].run = "done"]
  /\ UNCHANGED <<result_rows, outsideJobs>>

\* processInBackground: catch (err): status failed, last_error err.message.
CatchFailed(r) ==
  /\ req[r].run = "catch"
  /\ jobs' = FailRows(jobs, {req[r].job}, req[r].thrown)
  /\ req' = [req EXCEPT ![r].run = "done", ![r].thrown = NoException]
  /\ UNCHANGED <<result_rows, outsideJobs>>

\* Mutant: the watchdog acts on pending jobs only.
WatchdogFires_PendingOnly(status) == status = "pending"

\* if (current.status === 'completed' || current.status === 'failed') return;
WatchdogFires(status) == ~(status = "completed" \/ status = "failed")

\* watchdog: WATCHDOG_MS have passed; the job's status is read.
WatchdogRead(r) ==
  /\ req[r].wd = "waiting"
  /\ req' = [req EXCEPT ![r].wd =
               IF WatchdogFires(jobs[req[r].job].status) THEN "write" ELSE "done"]
  /\ UNCHANGED <<jobs, result_rows, outsideJobs>>

\* watchdog: the update that fails the job with the timeout message.
WatchdogWrite(r) ==
  /\ req[r].wd = "write"
  /\ jobs' = FailRows(jobs, {req[r].job},
                      "Evaluation timed out in background processing. Please resubmit.")
  /\ req' = [req EXCEPT ![r].wd = "done"]
  /\ UNCHANGED <<result_rows, outsideJobs>>

\* The selectors of a cancel request: one job id, one test id, cancelAll.
TestIds == {"t1", "t2"}
CancelSelectors ==
  [kind : {"jobId"}, id : 1..MaxReqs] \cup [kind : {"testId"}, id : TestIds]
    \cup [kind : {"cancelAll"}, id : {NoJobId}]

\* Mutant: the owner is not part of the filter.
CancelRows_AnyOwner(js, user, sel) ==
  {j \in JobIdsOf(js) :
     /\ NonTerminal(js[j].status)
     /\ (sel.kind = "jobId" => j = sel.id)
     /\ (sel.kind = "testId" => js[j].test_id = sel.id)}

\* The rows the cancel request's filters select.
CancelRows(js, user, sel) ==
  {j \in JobIdsOf(js) :
     /\ js[j].user_id = user
     /\ NonTerminal(js[j].status)
     /\ (sel.kind = "jobId" => j = sel.id)
     /\ (sel.kind = "testId" => js[j].test_id = sel.id)}

\* .update({ status: 'failed', stage: 'cancelled', last_error: 'Cancelled by user',
\*           lock_token: null, lock_expires_at: null }) on the rows S.
CancelUpdate(js, S) ==
  [j \in JobIdsOf(js) |->
     IF j \in S
     THEN [js[j] EXCEPT !.status = "failed", !.stage = "cancelled",
                        !.last_error = "Cancelled by user",
                        !.lock_token = NoLockToken, !.lock_expires_at = NoTime]
     ELSE js[j]]

\* cancel-speaking-job: one UPDATE of the caller's pending/processing jobs.
CancelJobs(user, sel) ==
  /\ jobs' = CancelUpdate(jobs, CancelRows(jobs, user, sel))
  /\ UNCHANGED <<req, result_rows, outsideJobs>>

\* No request has been received, the job table is empty.
JobsRest ==
  /\ jobs = <<>>
  /\ result_rows = {}
  /\ req \in {f \in [Reqs -> {NewReq(u, j) : u \in Users, j \in 0..MaxReqs}] :
                /\ f[1].user = "u1"
                /\ \A r \in Reqs : f[r].retryJobId < r}

JobsInit ==
  /\ PoolRest
  /\ DriverRest
  /\ is_active = [k \in Keys |-> TRUE]
  /\ error_count = [k \in Keys |-> 0]
  /\ JobsRest
  /\ MediaRest
  /\ AssembleRest
  /\ ClientRest

JobsNext ==
  \/ \E r \in Reqs : SelectExisting(r)
  \/ \E r \in Reqs : CancelExisting(r)
  \/ \E r \in Reqs, ok \in BOOLEAN : InsertJob(r, ok)
  \/ \E r \in Reqs : FetchRetryJob(r)
  \/ \E r \in Reqs : UpdateProcessing(r)
  \/ \E r \in Reqs : MarkProcessing(r)
  \/ \E r \in Reqs, thrown \in Exceptions \cup {NoException} : Evaluate(r, thrown)
  \/ \E r \in Reqs, saveOk \in BOOLEAN : InsertResult(r, saveOk)
  \/ \E r \in Reqs : MarkCompleted(r)
  \/ \E r \in Reqs : CatchFailed(r)
  \/ \E r \in Reqs : WatchdogRead(r)
  \/ \E r \in Reqs : WatchdogWrite(r)
  \/ \E u \in Users, sel \in CancelSelectors : CancelJobs(u, sel)

SpecJobs == JobsInit /\ [][JobsNext]_vars

\* The watchdog's timer fires and its awaits return; nothing is assumed about the
\* handler or the runner.
WatchdogFairness ==
  \A r \in Reqs : WF_vars(WatchdogRead(r)) /\ WF_vars(WatchdogWrite(r))

SpecJobsFair == JobsInit /\ [][JobsNext]_vars /\ WatchdogFairness

(***************************************************************************)
(* The watchdog with its clock: one submission that creates a job and      *)
(* retries of that job, minute by minute.                                  *)
(***************************************************************************)
\* WATCHDOG_MS at the scale of the model, in minutes of the clock.
WatchdogTicks == 2

\* setTimeout(r, WATCHDOG_MS) has run out; the job's status is read.
WatchdogTimer(r) ==
  /\ req[r].at # NoTime
  /\ now >= req[r].at + WatchdogTicks
  /\ WatchdogRead(r)

\* A minute passes for the requests.
JobsTick ==
  /\ now < MaxNow
  /\ now' = now + 1
  /\ UNCHANGED <<is_active, error_count, locked_by_job_id, locked_until, updated_at,
                 quota, lockVars, fetched, lastOp, outsidePool>>

\* Request 1 is a new submission; the later ones carry retryJobId = 1.
WatchdogInit ==
  /\ PoolRest
  /\ DriverRest
  /\ is_active = [k \in Keys |-> TRUE]
  /\ error_count = [k \in Keys |-> 0]
  /\ jobs = <<>>
  /\ result_rows = {}
  /\ req = [r \in Reqs |-> NewReq("u1", IF r = 1 THEN NoJobId ELSE 1)]
  /\ MediaRest
  /\ AssembleRest
  /\ ClientRest

WatchdogNext ==
  \/ \E r \in Reqs : SelectExisting(r)
  \/ \E r \in Reqs : InsertJob(r, TRUE)
  \/ \E r \in Reqs : FetchRetryJob(r)
  \/ \E r \in Reqs : UpdateProcessing(r)
  \/ \E r \in Reqs : MarkProcessing(r)
  \/ \E r \in Reqs, thrown \in {NoException, "Job not found"} : Evaluate(r, thrown)
  \/ \E r \in Reqs : InsertResult(r, TRUE)
  \/ \E r \in Reqs : MarkCompleted(r)
  \/ \E r \in Reqs : CatchFailed(r)
  \/ \E r \in Reqs : WatchdogTimer(r)
  \/ \E r \in Reqs : WatchdogWrite(r)
  \/ JobsTick

SpecWatchdog == WatchdogInit /\ [][WatchdogNext]_vars

\* A step of a serve handler of evaluate-speaking-async (its position changes).
HandlerStep == \E r \in Reqs : req'[r].h # req[r].h

\* The creation path of request r inserts its job in this step.
Inserts(r) == req[r].h = "insert" /\ Len(jobs') = Len(jobs) + 1

(***************************************************************************)
(* C3: right after a new (non-retry) submission for (user U, test T) has   *)
(* inserted its job, every other job for (U, T) is terminal (the prior     *)
(* pending/processing ones failed with the cancellation message), so the   *)
(* new job is the only non-terminal job for (U, T).                        *)
(***************************************************************************)
OneLiveJobAfterInsert ==
  \A r \in Reqs :
    Inserts(r) => ExistingJobs(jobs', req[r].user, req[r].testId) = {Len(jobs')}

C3_SubmitCancelsPriorJobs == [][OneLiveJobAfterInsert]_vars

(***************************************************************************)
(* C4: in every reachable state at most one job per (user, test) pair has  *)
(* status pending or processing.                                           *)
(***************************************************************************)
C4_OneNonTerminalJobPerUserTest ==
  \A u \in Users : Cardinality(ExistingJobs(jobs, u, "t1")) <= 1

(***************************************************************************)
(* C5: once a job's status is completed or failed, no step of a background *)
(* runner, a watchdog or a cancel request changes its status.              *)
(***************************************************************************)
TerminalStatusKept ==
  ~HandlerStep =>
    \A j \in JobIdsOf(jobs) :
      Terminal(jobs[j].status) => jobs'[j].status = jobs[j].status

C5_TerminalIsFinal == [][TerminalStatusKept]_vars

(***************************************************************************)
(* C6: every job that is created or retried (its watchdog is scheduled in  *)
(* the same step) eventually reaches completed or failed whatever the      *)
(* runner does: the watchdog returns without writing only when it read a   *)
(* terminal status, and otherwise sets the job to failed with the timeout  *)
(* message.                                                                *)
(***************************************************************************)
JobOf(r) == jobs[req[r].job]

JobTerminal(r) == req[r].job \in JobIdsOf(jobs) /\ Terminal(JobOf(r).status)

WatchdogActs ==
  \A r \in Reqs :
    /\ (req[r].wd = "waiting" /\ req'[r].wd = "done") => Terminal(JobOf(r).status)
    /\ (req[r].wd = "write" /\ req'[r].wd = "done") =>
          /\ jobs'[req[r].job].status = "failed"
          /\ jobs'[req[r].job].last_error =
               "Evaluation timed out in background processing. Please resubmit."

FileKeys ==
  {[part |-> 1, qid |-> "a"], [part |-> 1, qid |-> "b"], [part |-> 2, qid |-> "c"],
   [part |-> 3, qid |-> "d"], [part |-> 2, qid |-> "z"], [part |-> 0, qid |-> "notes"]}

\* questionById, built from payload.speakingParts: question z is not in the test.
questionById ==
  [q \in {"a", "b", "c", "d"} |->
     CASE q = "a" -> [partNumber |-> 1, questionNumber |-> 1]
       [] q = "b" -> [partNumber |-> 1, questionNumber |-> 2]
       [] q = "c" -> [partNumber |-> 2, questionNumber |-> 1]
       [] OTHER   -> [partNumber |-> 3, questionNumber |-> 1]]

\* The key orders a file_paths map of at most MaxFiles entries can have.
FilePathOrders ==
  {fp \in UNION {[1..n -> FileKeys] : n \in 1..MaxFiles} :
     \A i \in DOMAIN fp : \A j \in DOMAIN fp : i # j => fp[i] # fp[j]}

\* if (!m) continue; ... if (!q) continue;
IsSegmentKey(k) == k.part \in {1, 2, 3} /\ k.qid \in DOMAIN questionById

\* segmentMetaByKey.values(): one entry per accepted key, in key order.
SegmentMetaByKey(fp) ==
  LET accepted == SelectSeq(fp, IsSegmentKey)
  IN  [i \in 1..Len(accepted) |->
         [segmentKey |-> accepted[i], partNumber |-> accepted[i].part,
          questionNumber |-> questionById[accepted[i].qid].questionNumber]]

\* The comparator of orderedSegments.
CompareSegments(a, b) ==
  IF a.partNumber # b.partNumber THEN a.partNumber - b.partNumber
  ELSE a.questionNumber - b.questionNumber

\* Array.prototype.sort is stable: x goes behind the elements that do not compare
\* greater than it.
InsertStable(s, x) ==
  LET n == Cardinality({i \in 1..Len(s) : CompareSegments(s[i], x) <= 0})
  IN  SubSeq(s, 1, n) \o <<x>> \o SubSeq(s, n + 1, Len(s))

RECURSIVE SortSegments(_)
SortSegments(s) ==
  IF s = <<>> THEN <<>>
  ELSE InsertStable(SortSegments(SubSeq(s, 1, Len(s) - 1)), s[Len(s)])

\* Mutant: every driver downloads in the key order of the map.
DownloadOrder_KeyOrder(kind) == file_paths

\* The keys the download loop goes through: orderedSegments in the background
\* driver, Object.entries(filePaths) in the synchronous one.
DownloadOrder(kind) ==
  IF kind = "async"
  THEN [i \in 1..Len(orderedSegments) |-> orderedSegments[i].segmentKey]
  ELSE file_paths

\* What a step on the audio segments leaves alone.
outsideMedia == <<poolVars, lockVars, driverVars, fetched, lastOp, jobs, result_rows, req,
                  assembleVars, clientVars>>

\* Build segment metadata, orderedSegments.
BuildSegments ==
  /\ media.pc = "start"
  /\ orderedSegments' = SortSegments(SegmentMetaByKey(file_paths))
  /\ media' = [media EXCEPT !.pc = "download", !.i = 1]
  /\ UNCHANGED <<file_paths, audioFiles, contentParts, outsideMedia>>

\* One turn of the download loop.  The background driver logs a failed download and
\* goes on; the synchronous driver answers 500 R2_DOWNLOAD_ERROR.
DownloadFile(ok) ==
  /\ media.pc = "download"
  /\ media.i <= Len(DownloadOrder(media.kind))
  /\ audioFiles' = IF ok THEN Append(audioFiles, DownloadOrder(media.kind)[media.i])
                   ELSE audioFiles
  /\ media' = IF ok \/ media.kind = "async" THEN [media EXCEPT !.i = media.i + 1]
              ELSE [media EXCEPT !.pc = "failed"]
  /\ UNCHANGED <<file_paths, orderedSegments, contentParts, outsideMedia>>

\* The loop is over; runEvaluation throws when nothing was downloaded.
DownloadsDone ==
  /\ media.pc = "download"
  /\ media.i > Len(DownloadOrder(media.kind))
  /\ media' = [media EXCEPT !.pc = IF media.kind = "async" /\ audioFiles = <<>>
                                   THEN "failed" ELSE "request"]
  /\ UNCHANGED <<file_paths, orderedSegments, audioFiles, contentParts, outsideMedia>>

\* contentParts: one part per audio file (file URI or inline data), then the prompt.
BuildRequest ==
  /\ media.pc = "request"
  /\ contentParts' = [i \in 1..Len(audioFiles) |-> [type |-> "audio", key |-> audioFiles[i]]]
                       \o <<[type |-> "text", key |-> PromptKey]>>
  /\ media' = [media EXCEPT !.pc = "done"]
  /\ UNCHANGED <<file_paths, orderedSegments, audioFiles, outsideMedia>>

MediaInit ==
  /\ PoolRest
  /\ DriverRest
  /\ NoRequests
  /\ is_active = [k \in Keys |-> TRUE]
  /\ error_count = [k \in Keys |-> 0]
  /\ file_paths \in FilePathOrders
  /\ orderedSegments = <<>>
  /\ audioFiles = <<>>
  /\ contentParts = <<>>
  /\ \E kind \in {"async", "sync"} : media = [pc |-> "start", kind |-> kind, i |-> 0]
  /\ AssembleRest
  /\ ClientRest

MediaNext ==
  \/ BuildSegments
  \/ \E ok \in BOOLEAN : DownloadFile(ok)
  \/ DownloadsDone
  \/ BuildRequest

SpecMedia == MediaInit /\ [][MediaNext]_vars

(***************************************************************************)
(* Assembling the result: the overall band (calculateBand,                 *)
(* computeOverallBandFromQuestionBands, overallBand of either driver),     *)
(* the insert into ai_practice_results and the answer.                     *)
(* Bands are in tenths of a band: 65 is 6.5.                               *)
(***************************************************************************)
\* Math.round(avg * 2) / 2 of the average num / den: Math.round rounds to the
\* nearest integer, a tie upwards.
RoundToHalf(num, den) == 5 * ((2 * num + 5 * den) \div (10 * den))

RECURSIVE SumSeq(_)
SumSeq(sq) == IF sq = <<>> THEN 0 ELSE sq[1] + SumSeq(Tail(sq))

IsNumber(b) == b # NoBand

\* calculateBand: the average of the numeric criterion bands, rounded to 0.5; 6.0
\* without criteria.
calculateBand(result) ==
  LET IsScore(b) == IsNumber(b)
      scores == SelectSeq(result.criteria.bands, IsScore)
  IN  IF ~result.criteria.present THEN 60
      ELSE IF Len(scores) = 0 THEN 60
      ELSE RoundToHalf(SumSeq(scores), Len(scores))

\* weightForPart, doubled: 2.0, 1.5 and 1.0.
weightForPart(p) == IF p = 2 THEN 4 ELSE IF p = 3 THEN 3 ELSE 2

\* computeOverallBandFromQuestionBands: the weighted average of the estimatedBand
\* of the answers of parts 1 to 3 that have one, rounded to 0.5 and clamped to
\* 1..9; null without such answers.
computeOverallBandFromQuestionBands(result) ==
  LET Scored(a) == a.partNumber \in {1, 2, 3} /\ IsNumber(a.estimatedBand)
      bands == SelectSeq(result.modelAnswers, Scored)
      sum == SumSeq([i \in 1..Len(bands) |->
                       bands[i].estimatedBand * weightForPart(bands[i].partNumber)])
      w == SumSeq([i \in 1..Len(bands) |-> weightForPart(bands[i].partNumber)])
      rounded == RoundToHalf(sum, w)
  IN  IF Len(bands) = 0 THEN NoBand
      ELSE IF w <= 0 THEN NoBand
      ELSE IF rounded > 90 THEN 90 ELSE IF rounded < 10 THEN 10 ELSE rounded

\* Mutant: the question average comes first, the model's own figure last.
SyncOverallBand_QuestionsFirst(result) ==
  IF computeOverallBandFromQuestionBands(result) # NoBand
  THEN computeOverallBandFromQuestionBands(result)
  ELSE IF IsNumber(result.overall_band) THEN result.overall_band
  ELSE calculateBand(result)

\* typeof overall_band === 'number' ? overall_band
\*   : derivedFromQuestions ?? derivedFromCriteria
SyncOverallBand(result) ==
  IF IsNumber(result.overall_band) THEN result.overall_band
  ELSE IF computeOverallBandFromQuestionBands(result) # NoBand
       THEN computeOverallBandFromQuestionBands(result)
       ELSE calculateBand(result)

\* evaluationResult.overall_band || calculateBand(evaluationResult): 0 and an
\* absent figure are falsy.
AsyncOverallBand(result) ==
  IF IsNumber(result.overall_band) /\ result.overall_band # 0
  THEN result.overall_band
  ELSE calculateBand(result)

OverallBand(kind, result) ==
  IF kind = "sync" THEN SyncOverallBand(result) ELSE AsyncOverallBand(result)

\* What the model may answer: its own overall figure or none, up to MaxAnswers
\* answers with a part number and an estimated band or none, criteria or none.
MaxAnswers == 2
OverallBands == {NoBand, 0, 63, 65, 95}
QuestionBands == {NoBand, 50, 80}
CriterionBands == {NoBand, 65, 100}
Answers == [partNumber : {1, 2, 3, 4}, estimatedBand : QuestionBands]
AnswerLists == UNION {[1..n -> Answers] : n \in 0..MaxAnswers}
NoCriteria == [present |-> FALSE, bands |-> <<NoBand, NoBand, NoBand, NoBand>>]
CriteriaValues ==
  {NoCriteria} \cup
  {[present |-> TRUE, bands |-> <<a, b, 65, 65>>] : a \in CriterionBands, b \in CriterionBands}
  \cup {[present |-> TRUE, bands |-> <<a, NoBand, NoBand, NoBand>>] : a \in {NoBand, 0, 100}}
EvaluationResults ==
  [overall_band : OverallBands, modelAnswers : AnswerLists, criteria : CriteriaValues]

outsideAssemble == <<poolVars, lockVars, driverVars, fetched, lastOp, jobs, req, mediaVars,
                     clientVars>>

\* Calculate band score; the synchronous driver writes it back into the report.
ComputeBand ==
  /\ assembled.pc = "start"
  /\ assembled' = [assembled EXCEPT !.pc = "save",
                     !.overallBand = OverallBand(assembled.kind, evaluationResult)]
  /\ evaluationResult' =
       IF assembled.kind = "sync"
       THEN [evaluationResult EXCEPT !.overall_band = SyncOverallBand(evaluationResult)]
       ELSE evaluationResult
  /\ UNCHANGED <<result_rows, outsideAssemble>>

BandInit ==
  /\ PoolRest
  /\ DriverRest
  /\ NoRequests
  /\ MediaRest
  /\ ClientRest
  /\ is_active = [k \in Keys |-> TRUE]
  /\ error_count = [k \in Keys |-> 0]
  /\ evaluationResult \in EvaluationResults
  /\ \E kind \in {"async", "sync"} : assembled = [NotAssembling EXCEPT !.pc = "start", !.kind = kind]

BandNext == ComputeBand

SpecBand == BandInit /\ [][BandNext]_vars

\* The id of the row the synchronous endpoint inserts.
SyncRow == MaxReqs + 1

\* The synchronous driver: insert into ai_practice_results; saveError is logged
\* ("Continue anyway - we have the result").
SaveResultSync(saveOk) ==
  /\ assembled.kind = "sync"
  /\ assembled.pc = "save"
  /\ result_rows' = IF saveOk THEN result_rows \cup {SyncRow} ELSE result_rows
  /\ assembled' = [assembled EXCEPT !.pc = "respond",
                                    !.resultRow = IF saveOk THEN SyncRow ELSE NoResult]
  /\ UNCHANGED <<evaluationResult, outsideAssemble>>

\* The synchronous driver's answer: 200 with overallBand, the report and
\* resultId: resultRow?.id.
RespondSync ==
  /\ assembled.kind = "sync"
  /\ assembled.pc = "respond"
  /\ assembled' = [assembled EXCEPT !.pc = "done",
                     !.response = [status |-> 200, overallBand |-> assembled.overallBand,
                                   resultId |-> assembled.resultRow]]
  /\ UNCHANGED <<evaluationResult, result_rows, outsideAssemble>>

\* The runner of request 1 inserts its row once the band is computed.
SaveResultAsync(saveOk) ==
  /\ assembled.kind = "async"
  /\ assembled.pc = "save"
  /\ InsertResult(1, saveOk)

\* A run of either driver that has its evaluation: the synchronous handler, or the
\* runner of request 1 with its job processing and its watchdog waiting.
SaveInit ==
  /\ PoolRest
  /\ DriverRest
  /\ MediaRest
  /\ ClientRest
  /\ is_active = [k \in Keys |-> TRUE]
  /\ error_count = [k \in Keys |-> 0]
  /\ result_rows = {}
  /\ evaluationResult \in
       {r \in EvaluationResults : r.modelAnswers = <<>> /\ r.criteria = NoCriteria}
  /\ \E kind \in {"async", "sync"} :
       /\ assembled = [NotAssembling EXCEPT !.pc = "start", !.kind = kind]
       /\ jobs = IF kind = "async"
                 THEN <<[NewJob("u1", "t1") EXCEPT !.status = "processing"]>>
                 ELSE <<>>
       /\ req = [r \in Reqs |->
                   IF kind = "async" /\ r = 1
                   THEN [Scheduled(NewReq("u1", NoJobId), 1) EXCEPT !.run = "save"]
                   ELSE NewReq("u1", NoJobId)]

SaveNext ==
  \/ ComputeBand
  \/ \E saveOk \in BOOLEAN : SaveResultSync(saveOk)
  \/ RespondSync
  \/ \E saveOk \in BOOLEAN : SaveResultAsync(saveOk)
  \/ MarkCompleted(1)
  \/ WatchdogRead(1)
  \/ WatchdogWrite(1)
  \/ \E u \in Users : CancelJobs(u, [kind |-> "cancelAll", id |-> NoJobId])

SpecSave == SaveInit /\ [][SaveNext]_vars

(***************************************************************************)
(* parseJson (both drivers).  A text is a sequence of tokens: the braces,  *)
(* "k" a member name with its colon, "1" a scalar literal, " " white       *)
(* space, "p" a word of prose, "f" a fence of three backticks, "j" the     *)
(* word json.                                                              *)
(***************************************************************************)
\* The longest prose in front of a document.
MaxProse == 2

StripSpace(s) == LET NotSpace(t) == t # " " IN SelectSeq(s, NotSpace)

\* The JSON values of the model: a scalar, the empty object, an object with one
\* member.
RECURSIVE IsValue(_)
IsValue(s) ==
  \/ s = <<"1">>
  \/ s = <<"{", "}">>
  \/ /\ Len(s) >= 4
     /\ s[1] = "{"
     /\ s[2] = "k"
     /\ s[Len(s)] = "}"
     /\ IsValue(SubSeq(s, 3, Len(s) - 1))

\* JSON.parse: white space between tokens is skipped; anything but one value throws.
JSONparse(s) ==
  IF IsValue(StripSpace(s)) THEN [ok |-> TRUE, val |-> StripSpace(s)] ELSE NoJson

\* text.match(/<fence>(?:json)?\s*([\s\S]*?)<fence>/): from the first fence to the next,
\* without the word json that follows the opening fence.
FencedBlock(text) ==
  LET F == {i \in DOMAIN text : text[i] = "f"}
      open == CHOOSE i \in F : \A k \in F : i <= k
      close == CHOOSE i \in F \ {open} : \A k \in F \ {open} : i <= k
      inner == SubSeq(text, open + 1, close - 1)
  IN  IF Cardinality(F) < 2 THEN [match |-> FALSE, group |-> <<>>]
      ELSE [match |-> TRUE,
            group |-> IF inner # <<>> /\ inner[1] = "j" THEN Tail(inner) ELSE inner]

\* text.match(/\{[\s\S]*\}/): from the first "{" to the last "}" behind it.
BraceSpan(text) ==
  LET O == {i \in DOMAIN text : text[i] = "{"}
      C == {i \in DOMAIN text : text[i] = "}"}
      first == CHOOSE i \in O : \A k \in O : i <= k
      last == CHOOSE i \in C : \A k \in C : i >= k
  IN  IF O = {} \/ C = {} THEN [match |-> FALSE, group |-> <<>>]
      ELSE IF last < first THEN [match |-> FALSE, group |-> <<>>]
      ELSE [match |-> TRUE, group |-> SubSeq(text, first, last)]

parseJson(text) ==
  IF JSONparse(text).ok THEN JSONparse(text)
  ELSE IF FencedBlock(text).match /\ JSONparse(FencedBlock(text).group).ok
       THEN JSONparse(FencedBlock(text).group)
  ELSE IF BraceSpan(text).match /\ JSONparse(BraceSpan(text).group).ok
       THEN JSONparse(BraceSpan(text).group)
  ELSE NoJson

\* The documents a model answers with and the prose it may put in front of one.
Docs == {<<"1">>, <<"{", "}">>, <<"{", "k", "1", "}">>, <<"{", " ", "k", " ", "1", "}">>,
         <<"{", "k", "{", "}", "}">>, <<"{", "k", "{", "k", "1", "}", "}">>}
Prose == UNION {[1..n -> {"p", " ", "{", "}"}] : n \in 1..MaxProse}
FenceTags == {<<>>, <<"j">>, <<"j", " ">>}

\* One document given raw, in a fenced block, or behind prose.
Renderings(form, doc) ==
  CASE form = "raw" -> {doc}
    [] form = "fenced" ->
         {pre \o <<"f">> \o tag \o doc \o <<"f">> : pre \in Prose \cup {<<>>}, tag \in FenceTags}
    [] OTHER -> {pre \o doc : pre \in Prose}

ParseJson ==
  /\ parse.pc = "start"
  /\ parse' = [parse EXCEPT !.pc = "done", !.result = parseJson(parse.text)]
  /\ UNCHANGED <<poolVars, lockVars, driverVars, fetched, lastOp, jobs, result_rows, req,
                 mediaVars, assembleVars, polling, speech>>

ParseInit ==
  /\ PoolRest
  /\ DriverRest
  /\ NoRequests
  /\ MediaRest
  /\ AssembleRest
  /\ is_active = [k \in Keys |-> TRUE]
  /\ error_count = [k \in Keys |-> 0]
  /\ polling = NoPolling
  /\ speech = NoSpeech
  /\ \E form \in {"raw", "fenced", "prose"}, doc \in Docs :
       \E text \in Renderings(form, doc) :
         parse = [NoParse EXCEPT !.pc = "start", !.form = form, !.doc = doc, !.text = text]

ParseNext == ParseJson

SpecParse == ParseInit /\ [][ParseNext]_vars

(***************************************************************************)
(* useJobPolling: one mounted hook with a fixed jobId, enabled, with       *)
(* realtime; the row it watches changes under it.  The stale detection and *)
(* onStatusChange are left out.                                            *)
(***************************************************************************)
\* Fetches in flight and realtime payloads not yet delivered.
MaxInFlight == 2
MaxNotes == 2

\* Mutant: onComplete is called for every completed row, without the ref.
handleJobUpdate_NoCompletedRef(h, jobStatus) ==
  [h EXCEPT !.status = jobStatus,
            !.effect = h.effect \/ h.status # jobStatus,
            !.hasCompleted = h.hasCompleted \/ jobStatus = "completed",
            !.onComplete = IF jobStatus = "completed" THEN @ + 1 ELSE @,
            !.onFailed = IF jobStatus = "failed" THEN @ + 1 ELSE @]

\* handleJobUpdate: setStatus (a changed status re-renders and re-runs the polling
\* effect), onComplete once per hasCompletedRef, onFailed for a failed row.
handleJobUpdate(h, jobStatus) ==
  [h EXCEPT !.status = jobStatus,
            !.effect = h.effect \/ h.status # jobStatus,
            !.hasCompleted = h.hasCompleted \/ jobStatus = "completed",
            !.onComplete = IF jobStatus = "completed" /\ ~h.hasCompleted THEN @ + 1 ELSE @,
            !.onFailed = IF jobStatus = "failed" THEN @ + 1 ELSE @]

\* The completed rows handed to handleJobUpdate, counted up to 2.
Seen(h, jobStatus) ==
  [h EXCEPT !.completedSeen =
              IF jobStatus = "completed" /\ h.completedSeen < 2 THEN @ + 1 ELSE @]

\* The callbacks are followed up to MaxCalls calls.
CanDeliver(jobStatus) ==
  /\ jobStatus = "failed" => polling.onFailed < MaxCalls
  /\ jobStatus = "completed" => polling.onComplete < MaxCalls

outsidePolling == <<poolVars, lockVars, driverVars, fetched, lastOp, jobs, result_rows, req,
                    mediaVars, assembleVars, parse, speech>>

\* The polling effect (re)runs: its cleanup clears the interval, fetchJob() is
\* called, and the interval is set unless the status is terminal.
RunPollingEffect ==
  /\ polling.pc = "on"
  /\ polling.effect
  /\ Len(polling.fetches) < MaxInFlight
  /\ polling' = [polling EXCEPT !.effect = FALSE,
                                !.fetches = Append(@, polling.db),
                                !.timer = polling.status \notin {"completed", "failed"}]
  /\ UNCHANGED outsidePolling

\* The interval fires: fetchJob().
PollTick ==
  /\ polling.pc = "on"
  /\ polling.timer
  /\ Len(polling.fetches) < MaxInFlight
  /\ polling' = [polling EXCEPT !.fetches = Append(@, polling.db)]
  /\ UNCHANGED outsidePolling

\* A fetch returns: with the row it read, or with fetchError.
FetchReturn(i, ok) ==
  /\ polling.pc = "on"
  /\ i \in DOMAIN polling.fetches
  /\ ok => CanDeliver(polling.fetches[i])
  /\ LET rest == [polling EXCEPT !.fetches =
                    SubSeq(@, 1, i - 1) \o SubSeq(@, i + 1, Len(@))]
     IN  polling' = IF ok THEN Seen(handleJobUpdate(rest, polling.fetches[i]),
                                    polling.fetches[i])
                    ELSE rest
  /\ UNCHANGED outsidePolling

\* The row is updated by the backend (runner, watchdog, cancel, retry); realtime
\* publishes the new row.
RowUpdate(s) ==
  /\ polling.pc = "on"
  /\ polling.changes < MaxChanges
  /\ Len(polling.notes) < MaxNotes
  /\ polling' = [polling EXCEPT !.db = s, !.notes = Append(@, s), !.changes = @ + 1]
  /\ UNCHANGED outsidePolling

\* The oldest realtime payload reaches the channel callback, or is lost.
Notify(delivered) ==
  /\ polling.pc = "on"
  /\ polling.notes # <<>>
  /\ delivered => CanDeliver(Head(polling.notes))
  /\ LET rest == [polling EXCEPT !.notes = Tail(@)]
     IN  polling' = IF delivered THEN Seen(handleJobUpdate(rest, Head(polling.notes)),
                                           Head(polling.notes))
                    ELSE rest
  /\ UNCHANGED outsidePolling

\* The hook is mounted for a job that is pending or processing; its effects have
\* not run yet.
PollingInit ==
  /\ PoolRest
  /\ DriverRest
  /\ NoRequests
  /\ MediaRest
  /\ AssembleRest
  /\ is_active = [k \in Keys |-> TRUE]
  /\ error_count = [k \in Keys |-> 0]
  /\ parse = NoParse
  /\ speech = NoSpeech
  /\ \E s \in {"pending", "processing"} :
       polling = [NoPolling EXCEPT !.pc = "on", !.db = s, !.effect = TRUE]

PollingNext ==
  \/ RunPollingEffect
  \/ PollTick
  \/ \E i \in 1..MaxInFlight, ok \in BOOLEAN : FetchReturn(i, ok)
  \/ \E s \in {"processing", "completed", "failed"} : RowUpdate(s)
  \/ \E delivered \in BOOLEAN : Notify(delivered)

SpecPolling == PollingInit /\ [][PollingNext]_vars

(***************************************************************************)
(* The speech-analysis hook: start, stop, abort, the onend handler with    *)
(* its restart timer and the watchdog, over the SpeechRecognition          *)
(* instances the hook creates.  An instance is "idle" (created or ended),  *)
(* "running", or "ending" (stopping, its onend event still to come).       *)
(***************************************************************************)
\* Restart timers pending at once; calls of stop() and abort() that are followed.
MaxTimers == 2
MaxStops == 2

outsideSpeech == <<poolVars, lockVars, driverVars, fetched, lastOp, jobs, result_rows, req,
                   mediaVars, assembleVars, parse, polling>>

\* SpeechRecognition.start(): starts an idle instance, throws on any other.
EngineStart(inst, i) == IF inst[i] = "idle" THEN [inst EXCEPT ![i] = "running"] ELSE inst

\* SpeechRecognition.stop() / abort(): a running instance ends, onend follows.
EngineStop(inst, i) == IF inst[i] = "running" THEN [inst EXCEPT ![i] = "ending"] ELSE inst

\* Mutant: stop() and abort() leave recognitionRef as it is.
RefAfterStop_Kept(ref) == ref

\* stop() / abort(): recognitionRef.current = null.
RefAfterStop(ref) == NoInstance

\* start(), up to its first await: the refs are set for a new session.
StartBegin ==
  /\ speech.pc \in {"off", "idle"}
  /\ speech.created < MaxSessions
  /\ speech' = [speech EXCEPT !.pc = "starting", !.isAnalyzing = TRUE,
                              !.isManualStop = FALSE, !.isRestarting = FALSE]
  /\ UNCHANGED outsideSpeech

\* start(), after its awaits: the session's instance is created, referenced and
\* started, and the watchdog interval is set.
StartFinish ==
  /\ speech.pc = "starting"
  /\ LET i == speech.created + 1
     IN  speech' = [speech EXCEPT !.pc = "idle", !.created = i, !.recognitionRef = i,
                                  !.inst = [@ EXCEPT ![i] = "running"],
                                  !.watchdog = TRUE]
  /\ UNCHANGED outsideSpeech

\* stop() or abort(): the flags, the watchdog, the instance, the ref.
StopOrAbort(kind) ==
  /\ speech.pc # "off"
  /\ speech.stops < MaxStops
  /\ LET ref == speech.recognitionRef
     IN  speech' = [speech EXCEPT
           !.isManualStop = TRUE, !.isRestarting = FALSE, !.isAnalyzing = FALSE,
           !.watchdog = FALSE,
           !.inst = IF ref # NoInstance THEN EngineStop(@, ref) ELSE @,
           !.stopped = IF ref # NoInstance THEN @ \cup {ref} ELSE @,
           !.recognitionRef = IF ref # NoInstance THEN RefAfterStop(ref) ELSE ref,
           !.stops = @ + 1]
  /\ UNCHANGED outsideSpeech

\* The watchdog interval finds the session older than the maximum: proactive stop.
WatchdogStops ==
  /\ speech.watchdog
  /\ speech.isAnalyzing /\ ~speech.isManualStop
  /\ ~speech.isRestarting
  /\ speech' = [speech EXCEPT
        !.isRestarting = TRUE,
        !.inst = IF speech.recognitionRef # NoInstance
                 THEN EngineStop(@, speech.recognitionRef) ELSE @]
  /\ UNCHANGED outsideSpeech

\* The browser ends a running instance on its own.
EngineEnds(i) ==
  /\ speech.inst[i] = "running"
  /\ speech' = [speech EXCEPT !.inst[i] = "ending"]
  /\ UNCHANGED outsideSpeech

\* onend of instance i: handleEnd schedules the restart timer unless the hook is
\* not analyzing or was stopped by hand.  The timer remembers how many stops were
\* made before it.
OnEnd(i) ==
  /\ speech.inst[i] = "ending"
  /\ LET schedules == speech.isAnalyzing /\ ~speech.isManualStop
     IN  /\ schedules => Len(speech.timers) < MaxTimers
         /\ speech' = [speech EXCEPT
               !.inst[i] = "idle",
               !.timers = IF schedules THEN Append(@, speech.stops) ELSE @]
  /\ UNCHANGED outsideSpeech

\* A restart timer fires: nothing but isRestarting := false when the hook is not
\* analyzing or was stopped by hand, else recognitionRef.current?.start().
TimerFires(k) ==
  /\ k \in DOMAIN speech.timers
  /\ LET ref == speech.recognitionRef
         passes == speech.isAnalyzing /\ ~speech.isManualStop
         starts == passes /\ ref # NoInstance
     IN  speech' = [speech EXCEPT
           !.timers = SubSeq(@, 1, k - 1) \o SubSeq(@, k + 1, Len(@)),
           !.isRestarting = FALSE,
           !.inst = IF starts THEN EngineStart(@, ref) ELSE @,
           !.startedAfterStop = IF starts /\ ref \in speech.stopped THEN @ \cup {ref} ELSE @,
           !.lateFire = @ \/ speech.timers[k] < speech.stops]
  /\ UNCHANGED outsideSpeech

SpeechInit ==
  /\ PoolRest
  /\ DriverRest
  /\ NoRequests
  /\ MediaRest
  /\ AssembleRest
  /\ is_active = [k \in Keys |-> TRUE]
  /\ error_count = [k \in Keys |-> 0]
  /\ parse = NoParse
  /\ polling = NoPolling
  /\ speech = NoSpeech

SpeechNext ==
  \/ StartBegin
  \/ StartFinish
  \/ \E kind \in {"stop", "abort"} : StopOrAbort(kind)
  \/ WatchdogStops
  \/ \E i \in Instances : EngineEnds(i)
  \/ \E i \in Instances : OnEnd(i)
  \/ \E k \in 1..MaxTimers : TimerFires(k)

SpecSpeech == SpeechInit /\ [][SpeechNext]_vars


\* The recorded segments of the submission: the keys that name a question of the test.
RecordedSegments == {k \in Range(file_paths) : IsSegmentKey(k)}

\* k comes before l by (partNumber ascending, questionNumber ascending).
SegmentBefore(k, l) ==
  \/ k.part < l.part
  \/ (k.part = l.part
        /\ questionById[k.qid].questionNumber < questionById[l.qid].questionNumber)

\* The recorded segments in that order, whatever the key order of the map.
SortedSegmentKeys ==
  CHOOSE sq \in [1..Cardinality(RecordedSegments) -> RecordedSegments] :
    \A i \in DOMAIN sq : \A j \in DOMAIN sq : i < j => SegmentBefore(sq[i], sq[j])

\* The audio parts of the request, in request order.
AttachmentKeys ==
  LET IsAudio(part) == part.type = "audio"
      audio == SelectSeq(contentParts, IsAudio)
  IN  [i \in 1..Len(audio) |-> audio[i].key]

\* Every audio part comes before the text part, which is last.
PromptLast ==
  /\ contentParts # <<>>
  /\ contentParts[Len(contentParts)].type = "text"
  /\ \A i \in 1..(Len(contentParts) - 1) : contentParts[i].type = "audio"

(***************************************************************************)
(* C15: in the background driver the audio attachments of a model request  *)
(* are the recorded segments sorted by (partNumber, questionNumber)        *)
(* ascending, whatever the key order of file_paths (those whose download   *)
(* succeeded, all of them when every download succeeds), and every         *)
(* attachment precedes the prompt text.                                    *)
(***************************************************************************)
C15_AsyncAttachmentsSorted ==
  (media.kind = "async" /\ media.pc = "done") =>
    LET Downloaded(k) == k \in Range(audioFiles)
    IN  /\ PromptLast
        /\ AttachmentKeys = SelectSeq(SortedSegmentKeys, Downloaded)
        /\ (Range(audioFiles) = RecordedSegments => AttachmentKeys = SortedSegmentKeys)

\* A request with every segment attached, from a map whose first key is not the
\* first segment.
C15_Witness ==
  /\ media.kind = "async"
  /\ media.pc = "done"
  /\ Range(audioFiles) = RecordedSegments
  /\ Len(AttachmentKeys) >= 2
  /\ file_paths[1] # AttachmentKeys[1]
  /\ IsSegmentKey(file_paths[1])

(***************************************************************************)
(* C16: in the synchronous driver the inline audio attachments of a model  *)
(* request are the recorded segments sorted by (partNumber,                *)
(* questionNumber) ascending, whatever the key order of filePaths.         *)
(***************************************************************************)
C16_SyncAttachmentsSorted ==
  (/\ media.kind = "sync"
   /\ media.pc = "done"
   /\ Range(file_paths) = RecordedSegments)
  => AttachmentKeys = SortedSegmentKeys

SweepKeepsToday ==
  (lastOp'.op = "sweep" \/ (lastOp'.op = "get_active" /\ lastOp'.arg = "rpc_ok"))
    => \A k \in Keys, c \in Cols :
         ExhaustedToday(k, c) => quota'[k][c].exhausted = TRUE

C10_SweepClearsOnlyStale == [][SweepKeepsToday]_vars

(***************************************************************************)
(* C1: two concurrent checkout_api_key calls for distinct jobs never get   *)
(* the same credential: while one call holds the only eligible credential  *)
(* in its open transaction the other call returns no row, and in every     *)
(* reachable state no credential is handed to two distinct jobs whose      *)
(* locks are both unexpired.                                               *)
(***************************************************************************)
NoDoubleLock ==
  \A j1 \in JobIds : \A j2 \in JobIds \ {j1} :
    /\ \A g1 \in held[j1], g2 \in held[j2] :
         ~(g1.key = g2.key /\ g1.until >= now /\ g2.until >= now)
    /\ ~(txn[j1].pc = "locked" /\ txn[j2].pc = "locked" /\ txn[j1].key = txn[j2].key)

LoserGetsNoRow ==
  \A j \in JobIds :
    (/\ lastOp'.op = "checkout_select" /\ lastOp'.who = j
     /\ txn[j].pc = "idle"
     /\ \E o \in JobIds \ {j} :
          /\ txn[o].pc = "locked"
          /\ \A m \in {GEMINI_MODELS[1], GEMINI_MODELS[2]} :
               {k \in Keys : CheckoutEligible(k, m, now)} = {txn[o].key})
    => (txn'[j].pc = "idle" /\ returned'[j] = NoKey)

C1_ExclusiveCheckout == [](NoDoubleLock) /\ [][LoserGetsNoRow]_vars

\* Two calls raced for the one eligible credential: the first holds it in its open
\* transaction, the second has just returned no row.
C1_Witness ==
  \E j1 \in JobIds : \E j2 \in JobIds \ {j1} :
    /\ txn[j1].pc = "locked"
    /\ lastOp.op = "checkout_select" /\ lastOp.who = j2
    /\ returned[j2] = NoKey
    /\ Cardinality({k \in Keys : is_active[k]}) = 1

(***************************************************************************)
(* C19: release_api_key(jobId) clears holder and expiry of exactly the     *)
(* credentials whose holder is jobId and leaves the lock fields of every   *)
(* other credential unchanged; a second call, or a call for a job that     *)
(* holds no lock (its expired lock reclaimed by another job included),     *)
(* changes nothing in the table.                                           *)
(***************************************************************************)
Releases(j) == lastOp'.op = "release" /\ lastOp'.who = j

ReleaseExact ==
  \A j \in JobIds : Releases(j) =>
    \A k \in Keys :
      IF locked_by_job_id[k] = j
      THEN locked_by_job_id'[k] = NoJob /\ locked_until'[k] = NoTime
      ELSE locked_by_job_id'[k] = locked_by_job_id[k] /\ locked_until'[k] = locked_until[k]

ReleaseOfNothing ==
  \A j \in JobIds :
    (Releases(j) /\ \A k \in Keys : locked_by_job_id[k] # j) => UNCHANGED poolVars

ReleaseTwice ==
  \A j \in JobIds :
    (Releases(j) /\ lastOp.op = "release" /\ lastOp.who = j) => UNCHANGED poolVars

C19_ReleaseExactAndIdempotent ==
  [][ReleaseExact /\ ReleaseOfNothing /\ ReleaseTwice]_vars

\* j1 has released after the credential it was last given had been taken over by
\* j2, whose lock stands.
C19_Witness ==
  \E k \in Keys :
    /\ lastOp = Op("release", "j1", NoKey)
    /\ returned["j1"] = k
    /\ locked_by_job_id[k] = "j2"
    /\ locked_until[k] >= now
    /\ \E o \in Keys \ {k} : locked_by_job_id[o] = NoJob /\ is_active[o]

(***************************************************************************)
(* C20: a credential locked by a job that never calls release becomes      *)
(* eligible for checkout by another job once locked_until has passed,      *)
(* with no other operation needed; before that expiry it is not returned   *)
(* to any other job.                                                       *)
(***************************************************************************)
Selects(j) == lastOp'.op = "checkout_select" /\ lastOp'.who = j /\ txn[j].pc = "idle"

\* k is held by another job, its expiry has passed, and nothing else bars it.
ExpiredLockOfOther(k, j) ==
  /\ is_active[k] = TRUE
  /\ locked_by_job_id[k] \notin {NoJob, j}
  /\ locked_until[k] < now
  /\ \A m \in {GEMINI_MODELS[1], GEMINI_MODELS[2]} : ModelQuotaOk(k, m)
  /\ ~RowLockedByOther(k, j)

ExpiredLockReclaimed ==
  \A j \in JobIds : \A k \in Keys :
    (Selects(j) /\ ExpiredLockOfOther(k, j)) =>
      /\ txn'[j].pc = "locked"
      /\ (\A o \in Keys \ {k} : ~is_active[o]) => txn'[j].key = k

UnexpiredLockKept ==
  \A j \in JobIds : \A k \in Keys :
    (Selects(j) /\ txn'[j].pc = "locked" /\ txn'[j].key = k) =>
      \/ locked_by_job_id[k] = NoJob
      \/ locked_until[k] < now

C20_ExpiredLockReclaimable == [][ExpiredLockReclaimed /\ UnexpiredLockKept]_vars

\* j1 was given the credential and has not released since; its lock ran out and j2
\* now holds the credential.
C20_Witness ==
  \E k \in Keys : \E g \in held["j1"] :
    /\ g.key = k
    /\ g.until < now
    /\ locked_by_job_id[k] = "j2"
    /\ returned["j2"] = k

(***************************************************************************)
(* C21: the candidate queue built for a run holds at most one caller-      *)
(* supplied credential, which is first when present, followed by all pool  *)
(* credentials in the order the pool query returned them.                  *)
(***************************************************************************)
UserPositions(q) == {i \in DOMAIN q : q[i].isUserProvided}

PoolPart(q) ==
  LET IsPool(c) == ~c.isUserProvided
      pool == SelectSeq(q, IsPool)
  IN  [i \in 1..Len(pool) |-> pool[i].keyId]

QueueShape(q) ==
  /\ UserPositions(q) \subseteq {1}
  /\ \A i \in DOMAIN q : q[i].isUserProvided <=> q[i].keyId = NoKey

C21_QueueUserFirstThenPool ==
  \A p \in Procs :
    /\ QueueShape(drv[p].keyQueue)
    /\ (lastOp.op = "build_queue" /\ lastOp.who = p /\ drv[p].outcome # "no_keys")
         => PoolPart(drv[p].keyQueue) = fetched

\* A queue just built: the caller's key, then two pool credentials, k2 before k1.
C21_Witness ==
  /\ lastOp.op = "build_queue" /\ lastOp.who = "p1"
  /\ Len(drv["p1"].keyQueue) = 3
  /\ drv["p1"].keyQueue[1].isUserProvided
  /\ fetched = <<"k2", "k1">>

(***************************************************************************)
(* C22: once a model call returns parseable structured output the driver   *)
(* makes no further model call in that run, and the recorded result is the *)
(* output of the first (candidate, model) pair, in queue order then model  *)
(* priority order, whose call produced parseable output.                   *)
(***************************************************************************)
\* A call that returned parseable output is the last call of the run, and the run
\* records its model (and, in the synchronous driver, its credential).
ParsedEndsRun ==
  \A p \in Procs :
    obs[p].lastCall.res = "parsed" =>
      /\ drv[p].pc = "done"
      /\ drv[p].outcome = "result"
      /\ drv[p].usedModel = GEMINI_MODELS[obs[p].lastCall.mi]
      /\ drv[p].usedKey = drv[p].keyQueue[obs[p].lastCall.ki]

\* A run that recorded a result got it from its last call.
ResultFromParsedCall ==
  \A p \in Procs : drv[p].outcome = "result" => obs[p].lastCall.res = "parsed"

\* A finished run takes no step.
DoneIsFinal == \A p \in Procs : drv[p].pc = "done" => drv'[p] = drv[p]

\* Calls are made in queue order, then model priority order, never going back.
CallOrderKept ==
  \A p \in Procs :
    (drv[p].pc \in {"upload", "call", "calling"} /\ drv'[p].pc \in {"upload", "call", "calling"})
      => \/ drv'[p].ki > drv[p].ki
         \/ (drv'[p].ki = drv[p].ki /\ drv'[p].mi >= drv[p].mi)

C22_FirstParsedOutputWins ==
  /\ [](ParsedEndsRun /\ ResultFromParsedCall)
  /\ [][DoneIsFinal /\ CallOrderKept]_vars

\* The second model of the second candidate gave the result.
C22_Witness ==
  /\ drv["p1"].pc = "done"
  /\ drv["p1"].outcome = "result"
  /\ obs["p1"].lastCall.ki = 2
  /\ obs["p1"].lastCall.mi = 2
  /\ drv["p1"].usedModel = GEMINI_MODELS[2]

(***************************************************************************)
(* C23: when a model call succeeds but its output is empty or cannot be    *)
(* parsed as JSON, the driver does not retry that model, raises no error   *)
(* and marks no quota: it goes on to the next model in the priority list   *)
(* with the same credential (after the last model the model loop is over   *)
(* and the key loop goes on).                                              *)
(***************************************************************************)
UnparseableNextModel ==
  \A p \in Procs :
    (CallReturns(p) /\ obs'[p].lastCall.res = "unparseable") =>
      /\ NoLedgerWrite(p)
      /\ lastOp'.arg = "next_model"
      /\ drv'[p].sawTemporaryRateLimit = drv[p].sawTemporaryRateLimit
      /\ ~(drv'[p].pc = "call" /\ drv'[p].ki = drv[p].ki /\ drv'[p].mi = drv[p].mi)
      /\ IF drv[p].mi < Len(GEMINI_MODELS)
         THEN /\ drv'[p].pc = "call"
              /\ drv'[p].ki = drv[p].ki
              /\ drv'[p].mi = drv[p].mi + 1
              /\ drv'[p].attempt = 0
         ELSE \/ drv'[p].ki = drv[p].ki + 1 /\ drv'[p].mi = 1
              \/ drv'[p].pc = "done" /\ drv[p].ki = Len(drv[p].keyQueue)

C23_UnparseableIsSoftFailure == [][UnparseableNextModel]_vars

\* The first model of a pool credential answered text that is no JSON: the second
\* model is up next with the same credential.
C23_Witness ==
  /\ lastOp = Op("call_end", "p1", "next_model")
  /\ obs["p1"].lastCall.res = "unparseable"
  /\ obs["p1"].lastCall.mi = 1
  /\ drv["p1"].pc = "call"
  /\ drv["p1"].mi = 2
  /\ drv["p1"].ki = obs["p1"].lastCall.ki
  /\ ~drv["p1"].keyQueue[drv["p1"].ki].isUserProvided

(***************************************************************************)
(* C24: in the background driver a transient rate-limit failure is retried *)
(* on the same model and the same credential while attempts remain, with   *)
(* at most 4 calls per (credential, model) pair; when the 4th attempt is   *)
(* rate-limited too the driver abandons the credential and moves to the    *)
(* next candidate.                                                         *)
(***************************************************************************)
TransientRetriedThenNextKey ==
  \A p \in Procs :
    (CallReturns(p) /\ drv[p].kind = "async" /\ obs'[p].lastCall.cls = "transient") =>
      IF drv[p].attempt + 1 < 4
      THEN /\ drv'[p].pc = "call"
           /\ drv'[p].ki = drv[p].ki
           /\ drv'[p].mi = drv[p].mi
           /\ drv'[p].attempt = drv[p].attempt + 1
      ELSE \/ (drv'[p].pc = "upload" /\ drv'[p].ki = drv[p].ki + 1 /\ drv'[p].mi = 1
                 /\ drv'[p].attempt = 0)
           \/ (drv'[p].pc = "done" /\ drv[p].ki = Len(drv[p].keyQueue))

\* attempt counts the calls already made to the pair: a call is the 4th at most.
AtMostFourCalls ==
  \A p \in Procs : drv[p].kind = "async" => drv[p].attempt + 1 <= 4

C24_TransientRetriedFourTimes ==
  [](AtMostFourCalls) /\ [][TransientRetriedThenNextKey]_vars

\* The 4th call to the first model of the first candidate was rate-limited: the
\* second candidate is up next.
C24_Witness ==
  /\ lastOp = Op("call_end", "p1", "throw_temporary")
  /\ drv["p1"].kind = "async"
  /\ obs["p1"].lastCall.cls = "transient"
  /\ obs["p1"].lastCall.ki = 1
  /\ obs["p1"].lastCall.mi = 1
  /\ drv["p1"].pc = "upload"
  /\ drv["p1"].ki = 2

(***************************************************************************)
(* C25: in both drivers a model failure that is neither a permanent-quota  *)
(* nor a rate-limit failure is not retried on that model: the driver       *)
(* abandons the model after that single failed call and tries the next     *)
(* model with the same credential.                                         *)
(***************************************************************************)
\* The driver leaves the model for the next one, the credential kept (after the
\* last model the model loop is over and the key loop goes on).
LeavesModel(p) ==
  /\ lastOp'.arg = "next_model"
  /\ IF drv[p].mi < Len(GEMINI_MODELS)
     THEN /\ drv'[p].pc = "call"
          /\ drv'[p].ki = drv[p].ki
          /\ drv'[p].mi = drv[p].mi + 1
          /\ drv'[p].attempt = 0
     ELSE \/ drv'[p].ki = drv[p].ki + 1 /\ drv'[p].mi = 1
          \/ drv'[p].pc = "done" /\ drv[p].ki = Len(drv[p].keyQueue)

OtherFailure(p) == CallReturns(p) /\ obs'[p].lastCall.cls = "other"

OtherFailureNotRetried == \A p \in Procs : OtherFailure(p) => LeavesModel(p)

OtherFailureByDriver ==
  \A p \in Procs : OtherFailure(p) =>
    IF drv[p].kind = "async" /\ drv[p].attempt + 1 < 4
    THEN /\ lastOp'.arg = "retry"
         /\ drv'[p].pc = "call"
         /\ drv'[p].ki = drv[p].ki
         /\ drv'[p].mi = drv[p].mi
         /\ drv'[p].attempt = drv[p].attempt + 1
         /\ NoLedgerWrite(p)
    ELSE LeavesModel(p) /\ NoLedgerWrite(p)

Thrown(r) == req[r].run = "catch"

\* The only step a runner takes after a throw is the catch's update: it fails the
\* runner's job with the message thrown and writes no other job.
ThrownFailsJob ==
  \A r \in Reqs :
    (Thrown(r) /\ req'[r].run # "catch") =>
      /\ req'[r].run = "done"
      /\ jobs'[req[r].job].status = "failed"
      /\ jobs'[req[r].job].last_error = req[r].thrown
      /\ \A j \in JobIdsOf(jobs) \ {req[r].job} : jobs'[j] = jobs[j]

\* What is caught is one of the errors runEvaluation throws.
ThrownIsException == \A r \in Reqs : Thrown(r) <=> req[r].thrown \in Exceptions

C26_ExceptionFailsJob == [](ThrownIsException) /\ [][ThrownFailsJob]_vars

\* A runner has finished through its catch: its job is failed with the message of
\* the exhausted key loop.
C26_Witness ==
  \E r \in Reqs :
    /\ req[r].run = "done"
    /\ req[r].job # NoJobId
    /\ jobs[req[r].job].status = "failed"
    /\ jobs[req[r].job].last_error = "Evaluation failed: all models/keys exhausted"

(***************************************************************************)
(* cancel-speaking-job over a job table that already holds rows.           *)
(***************************************************************************)
\* Rows of the table when a cancel request arrives: any owner, test and status,
\* the job-level lock columns null or set.
TableRows ==
  {[user_id |-> u, test_id |-> t, status |-> st,
    last_error |-> IF st = "failed"
                   THEN "Evaluation timed out in background processing. Please resubmit."
                   ELSE "none",
    result_id |-> NoResult, stage |-> NoStage,
    lock_token |-> lk.token, lock_expires_at |-> lk.expires] :
     u \in Users, t \in TestIds,
     st \in {"pending", "processing", "completed", "failed"},
     lk \in {[token |-> NoLockToken, expires |-> NoTime],
             [token |-> "token", expires |-> MaxNow]}}

CancelInit ==
  /\ PoolRest
  /\ DriverRest
  /\ MediaRest
  /\ AssembleRest
  /\ ClientRest
  /\ is_active = [k \in Keys |-> TRUE]
  /\ error_count = [k \in Keys |-> 0]
  /\ jobs \in [1..MaxReqs -> TableRows]
  /\ result_rows = {}
  /\ req = [r \in Reqs |-> NewReq("u1", NoJobId)]

CancelNext == \E u \in Users, sel \in CancelSelectors : CancelJobs(u, sel)

SpecCancel == CancelInit /\ [][CancelNext]_vars

(***************************************************************************)
(* C27: a cancel request changes only jobs that belong to the              *)
(* authenticated user, match the given selector (job id, test id, or all)  *)
(* and are pending or processing; each such job becomes failed with a      *)
(* cancellation reason and null lock_token and lock_expires_at, and every  *)
(* other job (already terminal, or owned by another user) is left          *)
(* unchanged.                                                              *)
(***************************************************************************)
Selected(row, j, u, sel) ==
  /\ row.user_id = u
  /\ row.status \in {"pending", "processing"}
  /\ \/ sel.kind = "cancelAll"
     \/ (sel.kind = "jobId" /\ j = sel.id)
     \/ (sel.kind = "testId" /\ row.test_id = sel.id)

Cancelled(row) ==
  /\ row.status = "failed"
  /\ row.last_error = "Cancelled by user"
  /\ row.lock_token = NoLockToken
  /\ row.lock_expires_at = NoTime

\* Every step of the table is the step of a request of some user with some
\* selector: the selected rows are cancelled, owner and test kept, the others are
\* as they were.
CancelFrame ==
  \E u \in Users : \E sel \in CancelSelectors :
    /\ Len(jobs') = Len(jobs)
    /\ \A j \in JobIdsOf(jobs) :
         IF Selected(jobs[j], j, u, sel)
         THEN /\ Cancelled(jobs'[j])
              /\ jobs'[j].user_id = jobs[j].user_id
              /\ jobs'[j].test_id = jobs[j].test_id
              /\ jobs'[j].result_id = jobs[j].result_id
         ELSE jobs'[j] = jobs[j]

\* Whoever asks, a terminal row is never written.
TerminalRowsKept ==
  \A j \in JobIdsOf(jobs) : Terminal(jobs[j].status) => jobs'[j] = jobs[j]

C27_CancelTouchesOwnLiveJobsOnly == [][CancelFrame /\ TerminalRowsKept]_vars

\* One user's processing job that held a lock is cancelled and its lock fields are
\* null; the other user's processing job for the same test still holds its lock.
C27_Witness ==
  /\ Cancelled(jobs[1])
  /\ jobs[1].stage = "cancelled"
  /\ jobs[2].status = "processing"
  /\ jobs[2].lock_token # NoLockToken
  /\ jobs[2].user_id # jobs[1].user_id
  /\ jobs[2].test_id = jobs[1].test_id

(***************************************************************************)
(* C28: the synchronous assembler derives the overall score by precedence: *)
(* the model's numeric overall_band if present; else the weighted average  *)
(* of the per-question estimatedBand values (part 2 weight 2.0, part 3     *)
(* weight 1.5, part 1 weight 1.0, divided by the sum of the weights of the *)
(* scored items), to the nearest half band within 1..9; else the           *)
(* unweighted average of the criterion bands to the nearest half band (6.0 *)
(* when there is none).  An explicit overall score is used even when the   *)
(* weighted average would differ.                                          *)
(***************************************************************************)
RECURSIVE SumOver(_, _)
SumOver(S, f) ==
  IF S = {} THEN 0
  ELSE LET x == CHOOSE y \in S : TRUE IN f[x] + SumOver(S \ {x}, f)

\* b is the multiple of 0.5 nearest to num / den (the upper one at a tie).
NearestHalf(b, num, den) ==
  /\ b % 5 = 0
  /\ (2 * b - 5) * den <= 2 * num
  /\ 2 * num < (2 * b + 5) * den

Clamp(b) == IF b < 10 THEN 10 ELSE IF b > 90 THEN 90 ELSE b

HalfBands == {5 * i : i \in -10..40}

\* Twice the weights of the claim.
TwiceWeight == [p \in {1, 2, 3} |-> CASE p = 1 -> 2 [] p = 2 -> 4 [] p = 3 -> 3]

ScoredItems(result) ==
  {i \in DOMAIN result.modelAnswers :
     /\ result.modelAnswers[i].partNumber \in {1, 2, 3}
     /\ result.modelAnswers[i].estimatedBand # NoBand}

WeightedAverageIs(b, result) ==
  LET S == ScoredItems(result)
      num == SumOver(S, [i \in S |-> result.modelAnswers[i].estimatedBand
                                       * TwiceWeight[result.modelAnswers[i].partNumber]])
      den == SumOver(S, [i \in S |-> TwiceWeight[result.modelAnswers[i].partNumber]])
  IN  \E h \in HalfBands : NearestHalf(h, num, den) /\ b = Clamp(h)

ScoredCriteria(result) ==
  IF result.criteria.present
  THEN {i \in DOMAIN result.criteria.bands : result.criteria.bands[i] # NoBand}
  ELSE {}

CriterionAverageIs(b, result) ==
  LET S == ScoredCriteria(result)
  IN  IF S = {} THEN b = 60
      ELSE NearestHalf(b, SumOver(S, [i \in S |-> result.criteria.bands[i]]),
                       Cardinality(S))

SyncBandByPrecedence ==
  (assembled.pc = "start" /\ assembled.kind = "sync" /\ assembled'.pc = "save") =>
    LET b == assembled'.overallBand
        r == evaluationResult
    IN  IF r.overall_band # NoBand THEN b = r.overall_band
        ELSE IF ScoredItems(r) # {} THEN WeightedAverageIs(b, r)
        ELSE CriterionAverageIs(b, r)

C29_OverallBandHalfPointInRange ==
  assembled.pc = "save" =>
    /\ assembled.overallBand % 5 = 0
    /\ assembled.overallBand >= 10
    /\ assembled.overallBand <= 90

(***************************************************************************)
(* C30: if inserting the result row fails after a successful evaluation,   *)
(* the evaluation is still reported as a success: the background job is    *)
(* set to completed, never failed, by its runner, and the synchronous      *)
(* endpoint returns HTTP 200 with the in-memory evaluation.                *)
(***************************************************************************)
\* The runner's steps after the evaluation: the insert, whatever its outcome, is
\* followed by the update that completes the job; the catch is never entered.
RunnerCompletesJob ==
  \A r \in Reqs :
    /\ (req[r].run = "save" /\ req'[r].run # "save") => req'[r].run = "complete"
    /\ (req[r].run = "complete" /\ req'[r].run # "complete") =>
          /\ req'[r].run = "done"
          /\ jobs'[req[r].job].status = "completed"
          /\ jobs'[req[r].job].result_id =
                IF req[r].resultRow = NoResult THEN jobs[req[r].job].result_id
                ELSE req[r].resultRow

\* The synchronous handler's steps after the evaluation end in the 200 answer that
\* carries the band computed in memory and the row's id, or none.
SyncAnswers200 ==
  /\ (assembled.kind = "sync" /\ assembled.pc = "save" /\ assembled'.pc # "save")
        => assembled'.pc = "respond"
  /\ (assembled.kind = "sync" /\ assembled.pc = "respond" /\ assembled'.pc # "respond")
        => /\ assembled'.pc = "done"
           /\ assembled'.response.status = 200
           /\ assembled'.response.overallBand = assembled.overallBand
           /\ assembled'.response.resultId = assembled.resultRow

C30_SaveFailureStillSuccess == [][RunnerCompletesJob /\ SyncAnswers200]_vars

\* The runner's insert failed and no row exists; its job is completed without a
\* result reference.
C30_Witness ==
  /\ assembled.kind = "async"
  /\ req[1].run = "done"
  /\ result_rows = {}
  /\ jobs[1].status = "completed"
  /\ jobs[1].result_id = NoResult

(***************************************************************************)
(* C31: every job whose status is completed has a result reference         *)
(* (result_id) that identifies a stored result row.                        *)
(***************************************************************************)
C31_CompletedHasResult ==
  \A j \in JobIdsOf(jobs) :
    jobs[j].status = "completed" =>
      /\ jobs[j].result_id # NoResult
      /\ jobs[j].result_id \in result_rows

(***************************************************************************)
(* C32: results are persisted exactly once: in any interleaving of runner, *)
(* watchdog, cancellation, resubmission and retry at most one result row   *)
(* is inserted for a job, and a runner whose job was cancelled or timed    *)
(* out (is failed) when it reaches the insert inserts no row.              *)
(***************************************************************************)
\* The result rows inserted by the runners of job j.
RowsOfJob(j) == {r \in result_rows : req[r].job = j}

AtMostOneRowPerJob == \A j \in JobIdsOf(jobs) : Cardinality(RowsOfJob(j)) <= 1

NoRowForFailedJob ==
  \A r \in Reqs :
    (req[r].run = "save" /\ jobs[req[r].job].status = "failed") =>
       (r \in result_rows' <=> r \in result_rows)

C32_ResultPersistedOnce == [](AtMostOneRowPerJob) /\ [][NoRowForFailedJob]_vars

(***************************************************************************)
(* C33: parseJson returns the same structure for one JSON document whether *)
(* it is given raw, wrapped in a fenced code block, or preceded by prose   *)
(* (direct parse, then the first fenced block, then the span from the      *)
(* first "{" to the last "}", null when none of the three parses).         *)
(***************************************************************************)
C33_ParseJsonSameStructure ==
  parse.pc = "done" =>
    /\ parse.result.ok
    /\ parse.result = JSONparse(parse.doc)

\* The same for the raw and the fenced form only.
RawAndFencedAgree ==
  (parse.pc = "done" /\ parse.form \in {"raw", "fenced"}) =>
    parse.result = JSONparse(parse.doc)

\* The same for an object behind prose that has no brace.
ProseWithoutBraceAgrees ==
  (/\ parse.pc = "done"
   /\ parse.form = "prose"
   /\ parse.doc[1] = "{"
   /\ \A i \in 1..(Len(parse.text) - Len(parse.doc)) : parse.text[i] \notin {"{", "}"})
  => parse.result = JSONparse(parse.doc)

(***************************************************************************)
(* C34: in the background driver, for every model request the number of    *)
(* attachments equals the number of entries of the segment map embedded in *)
(* the prompt and the i-th attachment is the audio of the i-th entry,      *)
(* including when the download of some segment failed.                     *)
(***************************************************************************)
\* buildPrompt: segmentJson = JSON.stringify(orderedSegments), the whole list.
SegmentMap == [i \in 1..Len(orderedSegments) |-> orderedSegments[i].segmentKey]

C34_AttachmentsMatchSegmentMap ==
  (media.kind = "async" /\ media.pc = "done") =>
    /\ Len(AttachmentKeys) = Len(SegmentMap)
    /\ \A i \in 1..Len(AttachmentKeys) : AttachmentKeys[i] = SegmentMap[i]

(***************************************************************************)
(* C35: the watchdog force-fails a job only if that job has been           *)
(* continuously non-terminal for the full watchdog deadline: a watchdog    *)
(* scheduled by an earlier submission of a job id does not fail a later    *)
(* retry of the same job id that started less than the deadline ago.       *)
(***************************************************************************)
\* The watchdog of request r writes its update.
WatchdogFails(r) == req[r].wd = "write" /\ req'[r].wd = "done"

\* A run of job j was scheduled less than the deadline ago.
YoungRun(j) ==
  \E r2 \in Reqs :
    /\ req[r2].job = j
    /\ req[r2].at # NoTime
    /\ now - req[r2].at < WatchdogTicks

WatchdogSparesYoungRun ==
  \A r \in Reqs : WatchdogFails(r) => ~YoungRun(req[r].job)

C35_WatchdogOnlyAfterFullDeadline == [][WatchdogSparesYoungRun]_vars

(***************************************************************************)
(* C36: a submit request, including one that carries retryJobId, changes   *)
(* the status of, and starts an evaluation for, only jobs owned by the     *)
(* authenticated user: a retryJobId that names another user's job leaves   *)
(* that job's row unchanged.                                               *)
(***************************************************************************)
\* A step of request r (its handler, runner or watchdog) changes rows of its own
\* user only.
RequestWritesOwnJobs ==
  \A r \in Reqs :
    req'[r] # req[r] =>
      \A j \in JobIdsOf(jobs) : jobs'[j] # jobs[j] => jobs[j].user_id = req[r].user

\* The job a request's runner and watchdog are scheduled for belongs to its user.
RunsOwnJob ==
  \A r \in Reqs : req[r].job # NoJobId => jobs[req[r].job].user_id = req[r].user

C36_SubmitTouchesOwnJobsOnly == [](RunsOwnJob) /\ [][RequestWritesOwnJobs]_vars

(***************************************************************************)
(* C37: each driver run terminates after a bounded number of model calls,  *)
(* at most queue length x number of models x attempts per model (4 in the  *)
(* background driver, 2 in the synchronous one), and ends with a result or *)
(* with the failure of the exhausted queue.                                *)
(***************************************************************************)
AttemptsPerModel(kind) == IF kind = "async" THEN MAX_RETRIES ELSE SYNC_ATTEMPTS

\* The rank of (candidate, model, attempt) among the calls a run can make, from 0
\* to queue length x models x attempts - 1.
CallRank(d) ==
  ((d.ki - 1) * Len(GEMINI_MODELS) + (d.mi - 1)) * AttemptsPerModel(d.kind) + d.attempt

\* A run inside its loops is at a rank below the bound.
RankInBounds ==
  \A p \in Procs :
    drv[p].pc \in {"upload", "call", "calling"} =>
      /\ drv[p].ki \in 1..Len(drv[p].keyQueue)
      /\ drv[p].mi \in 1..Len(GEMINI_MODELS)
      /\ drv[p].attempt \in 0..(AttemptsPerModel(drv[p].kind) - 1)
      /\ CallRank(drv[p]) <
           Len(drv[p].keyQueue) * Len(GEMINI_MODELS) * AttemptsPerModel(drv[p].kind)

\* Every call that returns ends the run or moves it to a higher rank, so no rank is
\* called twice; a run that ended takes no further step.
EachCallAdvances ==
  \A p \in Procs :
    /\ CallReturns(p) =>
         \/ /\ drv'[p].pc = "done"
            /\ drv'[p].outcome \in
                 {"result", "all_exhausted", "RATE_LIMITED", "ALL_KEYS_EXHAUSTED"}
         \/ /\ drv'[p].pc \in {"upload", "call"}
            /\ CallRank(drv'[p]) > CallRank(drv[p])
    /\ drv[p].pc = "done" => drv'[p] = drv[p]

C37_BoundedCallsPerRun == [](RankInBounds) /\ [][EachCallAdvances]_vars

\* A background run that called the last model of its last candidate a fourth
\* time, with two or more candidates queued, and ended without a result.
C37_Witness ==
  /\ drv["p1"].kind = "async"
  /\ drv["p1"].pc = "done"
  /\ drv["p1"].outcome = "all_exhausted"
  /\ Len(drv["p1"].keyQueue) >= 2
  /\ obs["p1"].lastCall.ki = Len(drv["p1"].keyQueue)
  /\ obs["p1"].lastCall.mi = Len(GEMINI_MODELS)
  /\ drv["p1"].attempt = MAX_RETRIES - 1

(***************************************************************************)
(* C38: for one monitored job id, useJobPolling invokes onComplete at most *)
(* once, however realtime notifications and polling fetches interleave and *)
(* however many times the completed row is observed.                       *)
(***************************************************************************)
C38_OnCompleteAtMostOnce == polling.onComplete <= 1

\* The completed row was handed to handleJobUpdate twice and onComplete ran once.
C38_Witness ==
  /\ polling.completedSeen = 2
  /\ polling.onComplete = 1

(***************************************************************************)
(* C39: for one monitored job id, useJobPolling invokes onFailed at most   *)
(* once, however realtime notifications and polling fetches interleave and *)
(* however many times the failed row is observed.                          *)
(***************************************************************************)
C39_OnFailedAtMostOnce == polling.onFailed <= 1

(***************************************************************************)
(* C40: in the speech-analysis hook, after stop() or abort() the           *)
(* recognition instance is never started again, even when an onend restart *)
(* timer scheduled before the stop fires afterwards.                       *)
(***************************************************************************)
C40_StoppedInstanceNeverRestarted ==
  /\ speech.startedAfterStop = {}
  /\ \A i \in speech.stopped : speech.inst[i] # "running"

\* A restart timer scheduled before a stop() or abort() fired after it.
C40_Witness ==
  /\ speech.lateFire
  /\ speech.stopped # {}

====
